---- MODULE Spec2Model ----
(***************************************************************************)
(* EntropPy correction solver: a state-machine model of the iterative      *)
(* solver over DictionaryState (candidate selection, pattern               *)
(* generalization, conflict removal, platform substring conflicts,         *)
(* convergence check).  Strings are TLA+ strings; a correction is the      *)
(* triple <<typo, word, boundary>>.                                        *)
(***************************************************************************)
EXTENDS Integers, Sequences, FiniteSets, TLC

VARIABLES
    set_order,             \* the order in which list(set(word_list)) yields
                           \* words of equal frequency; fixed for one run
    iteration_start,       \* the active sets and the graveyard as they were
                           \* when the current iteration began (the code
                           \* keeps no such copy)
    call,                  \* the last call of a stage function made outside
                           \* the solver: its name, arguments and result
    formatted_cache,       \* DictionaryState formatted cache: triple -> string
    dirty_corrections,     \* triples changed since they were last formatted
    format_call,           \* what the last formatting call took from the
                           \* cache and what it returned
    walk,                  \* the bucket walk of the worker-based platform pass
    exclusions,            \* the exclusion rules the ExclusionMatcher was built from
    raw_typo_map,          \* set of <<typo, word>> pairs (typo -> [word])
    validation_set,        \* correctly spelled words
    source_words,          \* words the typos were generated from
    platform,              \* "qmk" (RTL) or "espanso" (LTR)
    active_corrections,    \* DictionaryState.active_corrections
    active_patterns,       \* DictionaryState.active_patterns
    graveyard,             \* DictionaryState.graveyard: triple -> reason
    pattern_replacements,  \* DictionaryState.pattern_replacements
    current_iteration,     \* DictionaryState.current_iteration
    pc,                    \* position of the solver loop
    previous,              \* counts of the previous iteration
    converged,             \* result of the last convergence check
    max_iterations,        \* IterativeSolver.max_iterations
    min_typo_length,       \* Config.min_typo_length
    jobs,                  \* Config.jobs
    solve_count,           \* 1 in the first solve, 2 in a solve of its output
    first_result,          \* the three sets the first solve converged to
    detection              \* generation of the platform pass in use:
                           \* "pairwise" (passes/platform_substring_conflicts)
                           \* or "buckets" (platform_substring_conflict_detection)

vars == <<set_order, exclusions, iteration_start, call, raw_typo_map, validation_set, source_words, platform,
          active_corrections, active_patterns, graveyard,
          pattern_replacements, current_iteration, pc, previous, converged,
          max_iterations, min_typo_length, jobs, detection, solve_count,
          first_result, walk, formatted_cache, dirty_corrections,
          format_call>>

inputs == <<set_order, exclusions, raw_typo_map, validation_set, source_words, platform,
            max_iterations, min_typo_length, jobs, detection>>

solves == <<solve_count, first_result>>

caches == <<formatted_cache, dirty_corrections, format_call>>

\* no stage function has been called
no_call == [fn |-> "none"]

(***************************************************************************)
(* String helpers (Python str.startswith, str.endswith, `in`).             *)
(***************************************************************************)
startswith(t, s) == Len(s) <= Len(t) /\ SubSeq(t, 1, Len(s)) = s

endswith(t, s) == Len(s) <= Len(t) /\ SubSeq(t, Len(t) - Len(s) + 1, Len(t)) = s

contains(t, s) ==
    \E i \in 1..(Len(t) - Len(s) + 1) : SubSeq(t, i, i + Len(s) - 1) = s

\* every list that holds each element of a set once
OrdersOf(S) ==
    { f \in [1..Cardinality(S) -> S] :
        \A i, j \in 1..Cardinality(S) : f[i] = f[j] => i = j }

(***************************************************************************)
(* Boundaries and platform formatting.                                     *)
(***************************************************************************)
BoundaryType == {"NONE", "LEFT", "RIGHT", "BOTH"}

format_boundary_markers(typo, boundary) ==
    CASE boundary = "BOTH"  -> ":" \o typo \o ":"
      [] boundary = "LEFT"  -> ":" \o typo
      [] boundary = "RIGHT" -> typo \o ":"
      [] OTHER              -> typo

_format_typo_for_platform(typo, boundary) ==
    IF platform = "qmk" THEN format_boundary_markers(typo, boundary) ELSE typo

FormattedOf(c) == _format_typo_for_platform(c[1], c[3])

match_direction == IF platform = "qmk" THEN "RTL" ELSE "LTR"

(***************************************************************************)
(* Boundary detection against word sets (BoundaryIndex queries).           *)
(***************************************************************************)
\* variant: only the prefix and suffix fast paths, no search inside the word
is_substring_of_any_edges(typo, word_set) ==
    \E w \in word_set : (startswith(w, typo) \/ endswith(w, typo)) /\ typo # w

is_substring_of_any(typo, word_set) ==
    \E w \in word_set : contains(w, typo) /\ typo # w

would_trigger_at_start(typo, word_set) ==
    \E w \in word_set : startswith(w, typo) /\ w # typo

would_trigger_at_end(typo, word_set) ==
    \E w \in word_set : endswith(w, typo) /\ w # typo

_check_typo_in_target_word(typo, target_word) ==
    LET is_prefix == startswith(target_word, typo) /\ typo # target_word
        is_suffix == endswith(target_word, typo) /\ typo # target_word
    IN  [is_prefix    |-> is_prefix,
         is_suffix    |-> is_suffix,
         is_substring |-> /\ contains(target_word, typo)
                          /\ typo # target_word
                          /\ ~is_prefix
                          /\ ~is_suffix]

\* variant: the target word is left out of the check
_would_cause_false_trigger_no_target(typo, boundary, validation, source, target_word) ==
    CASE boundary = "NONE"  -> \/ is_substring_of_any(typo, validation)
                               \/ is_substring_of_any(typo, source)
      [] boundary = "LEFT"  -> \/ would_trigger_at_start(typo, validation)
                               \/ would_trigger_at_start(typo, source)
      [] boundary = "RIGHT" -> \/ would_trigger_at_end(typo, validation)
                               \/ would_trigger_at_end(typo, source)
      [] boundary = "BOTH"  -> FALSE
      [] OTHER              -> TRUE

_would_cause_false_trigger(typo, boundary, validation, source, target_word) ==
    LET tgt == _check_typo_in_target_word(typo, target_word)
        would_trigger_start ==
            \/ tgt.is_prefix
            \/ would_trigger_at_start(typo, validation)
            \/ would_trigger_at_start(typo, source)
        would_trigger_end ==
            \/ tgt.is_suffix
            \/ would_trigger_at_end(typo, validation)
            \/ would_trigger_at_end(typo, source)
        is_substring ==
            \/ tgt.is_substring
            \/ is_substring_of_any(typo, validation)
            \/ is_substring_of_any(typo, source)
    IN  CASE boundary = "NONE"  -> is_substring
          [] boundary = "LEFT"  -> would_trigger_start
          [] boundary = "RIGHT" -> would_trigger_end
          [] boundary = "BOTH"  -> FALSE
          [] OTHER              -> TRUE

\* variant: the prefix relationship is looked at before the suffix one
_determine_boundary_order_prefix_first(typo, word) ==
    LET tgt == _check_typo_in_target_word(typo, word)
    IN  IF tgt.is_prefix THEN <<"NONE", "LEFT", "BOTH">>
        ELSE IF tgt.is_suffix THEN <<"NONE", "RIGHT", "BOTH">>
        ELSE IF tgt.is_substring THEN <<"NONE", "BOTH">>
        ELSE <<"NONE", "LEFT", "RIGHT", "BOTH">>

_determine_boundary_order(typo, word) ==
    LET tgt == _check_typo_in_target_word(typo, word)
    IN  IF tgt.is_suffix THEN <<"NONE", "RIGHT", "BOTH">>
        ELSE IF tgt.is_prefix THEN <<"NONE", "LEFT", "BOTH">>
        ELSE IF tgt.is_substring THEN <<"NONE", "BOTH">>
        ELSE <<"NONE", "LEFT", "RIGHT", "BOTH">>

\* the ladder of boundaries from a natural boundary up to the strictest one
_get_boundary_order(natural_boundary) ==
    CASE natural_boundary = "NONE"  -> <<"NONE", "LEFT", "RIGHT", "BOTH">>
      [] natural_boundary = "LEFT"  -> <<"LEFT", "BOTH">>
      [] natural_boundary = "RIGHT" -> <<"RIGHT", "BOTH">>
      [] OTHER                      -> <<"BOTH">>

(***************************************************************************)
(* Bounds and input catalogues.                                            *)
(***************************************************************************)
MaxTypos == 3

TypoCatalogue ==
    { <<"teh", "the">>, <<"tehn", "then">>, <<"tain", "train">>,
      <<"xakei", "xakie">>, <<"yakei", "yakie">>, <<"kei", "kie">> }

ValidationCatalogue == {"maintain", "xkeiy", "xtehn"}

\* two corrections sharing eleven suffix patterns
LongFamily ==
    { <<"xxbcdefghijkei", "xxbcdefghijkie">>,
      <<"yybcdefghijkei", "yybcdefghijkie">> }

\* the same two corrections beside a direct correction of their shared suffix
LongFamilyWithStem == LongFamily \cup { <<"kei", "kie">> }

\* two corrections sharing suffix patterns, the first hemmed in by a source
\* word that starts and ends with its typo
BothFamily ==
    { <<"xakei", "xakie">>, <<"yakei", "yakie">>,
      <<"xakeixakie", "xakeixakei">> }

\* the same three corrections beside a direct correction of the letters that
\* two of their typos end with
BothFamilyWithStem == BothFamily \cup { <<"kei", "kie">> }

\* two pairs of corrections, each pair sharing a suffix pattern of its own
TwoPatternFamily ==
    { <<"xakei", "xakie">>, <<"yakei", "yakie">>,
      <<"xoteh", "xothe">>, <<"yoteh", "yothe">> }

\* three typos that each stand for two words: one collision with a clear
\* winner, one too close to call, one between two words of frequency 0
CollisionFamily ==
    { <<"teh", "the">>, <<"teh", "tech">>,
      <<"thn", "then">>, <<"thn", "than">>,
      <<"xkei", "xkie">>, <<"xkei", "xkee">> }

\* a short typo that would corrupt a longer one
GarbagePair == { <<"nad", "and">>, <<"canad", "canard">> }

\* the same two beside a typo that the short one makes redundant, all three
\* free of false triggers
ConflictFamily == GarbagePair \cup { <<"hnad", "hand">> }

\* two typos sharing the suffix pair (tain, rain): one a substitution that
\* the pair reproduces, one an omission that it does not
ReproductionFamily ==
    { <<"zztain", "zzrain">>, <<"xxtain", "xxtrain">> }

\* a correction whose laxest boundaries are a false trigger next to one that no
\* correct word contains, and the exclusion files tried on them
ExcludedFamily == { <<"tehn", "then">>, <<"jst", "just">> }

ExclusionChoices ==
    { {},
      { [typo |-> "jst", word |-> "*"] },
      { [typo |-> ":tehn", word |-> "then"] },
      { [typo |-> "*st", word |-> "just"], [typo |-> "tehn", word |-> "than"] },
      { [typo |-> ":tehn", word |-> "*"], [typo |-> "tehn:", word |-> "th*"],
        [typo |-> "*s*", word |-> "*"] } }

MaxIterationsChoices == {2, 10}

MinTypoLengthChoices == {2, 3, 5}

(***************************************************************************)
(* DictionaryState operations.                                             *)
(***************************************************************************)
Triples == active_corrections \cup active_patterns

\* variant: the graveyard is consulted by typo alone
is_in_graveyard_by_typo(c) == \E g \in DOMAIN graveyard : g[1] = c[1]

is_in_graveyard(c) == c \in DOMAIN graveyard

\* add_to_graveyard for a set of triples with one reason
add_to_graveyard(gy, cs, reason) ==
    [c \in (DOMAIN gy) \cup cs |-> IF c \in cs THEN reason ELSE gy[c]]

\* remove_pattern drops the pattern together with its replacement list
remove_pattern(repl, ps) == [p \in (DOMAIN repl) \ ps |-> repl[p]]

ReplacedCorrections == UNION { pattern_replacements[p] : p \in DOMAIN pattern_replacements }

(***************************************************************************)
(* The passes of one iteration (section 4.6).                              *)
(***************************************************************************)
\* variant: conflict removal runs before pattern generalization
passes_conflict_first == <<"candidate", "conflict", "pattern", "platform">>

\* the list of passes handed to the solver, in the order it runs them
passes == <<"candidate", "pattern", "conflict", "platform">>

\* where the solver goes after a pass: the next pass of the list, or the
\* convergence check after the last one
pass_after(p) ==
    LET i == CHOOSE k \in DOMAIN passes : passes[k] = p
    IN  IF i < Len(passes) THEN passes[i + 1] ELSE "check"

(***************************************************************************)
(* Candidate selection pass (section 4.2).                                 *)
(***************************************************************************)
Typos == { tw[1] : tw \in raw_typo_map }

is_typo_covered(typo) ==
    \/ \E c \in active_corrections : c[1] = typo
    \/ \E c \in ReplacedCorrections : c[1] = typo

\* ExclusionMatcher: a "*" at either end of a pattern stands for any text
_matches_wildcard(typo, pattern) ==
    IF startswith(pattern, "*") /\ endswith(pattern, "*")
    THEN contains(typo, IF Len(pattern) < 2 THEN ""
                        ELSE SubSeq(pattern, 2, Len(pattern) - 1))
    ELSE IF startswith(pattern, "*")
    THEN endswith(typo, SubSeq(pattern, 2, Len(pattern)))
    ELSE IF endswith(pattern, "*")
    THEN startswith(typo, SubSeq(pattern, 1, Len(pattern) - 1))
    ELSE typo = pattern

\* the boundary a rule is qualified with by its ":" markers; "ANY" without
exclusion_boundary(pattern) ==
    IF startswith(pattern, ":") /\ endswith(pattern, ":") /\ Len(pattern) > 1
    THEN "BOTH"
    ELSE IF startswith(pattern, ":") THEN "LEFT"
    ELSE IF endswith(pattern, ":") THEN "RIGHT"
    ELSE "ANY"

\* the typo pattern of a rule without its ":" markers
exclusion_typo(pattern) ==
    LET from == IF startswith(pattern, ":") THEN 2 ELSE 1
        to == IF endswith(pattern, ":") /\ Len(pattern) > 1
              THEN Len(pattern) - 1 ELSE Len(pattern)
    IN  SubSeq(pattern, from, to)

\* a rule excludes a correction when its typo pattern, its word pattern and
\* its boundary qualification all match
should_exclude(correction) ==
    \E rule \in exclusions :
        /\ _matches_wildcard(correction[1], exclusion_typo(rule.typo))
        /\ _matches_wildcard(correction[2], rule.word)
        /\ exclusion_boundary(rule.typo) \in {"ANY", correction[3]}

\* variant: candidate selection built without an exclusion matcher
_is_excluded_without_matcher(typo, word, boundary) == FALSE

_is_excluded(typo, word, boundary) ==
    IF exclusions = {} THEN FALSE
    ELSE should_exclude(<<typo, word, boundary>>)

\* variant: the first passing boundary is accepted and the boundaries rejected
\* on the way are not recorded
SelectBoundary_unrecorded(typo, word) ==
    LET order == _determine_boundary_order(typo, word)
        passing == { i \in 1..Len(order) :
                       /\ ~is_in_graveyard(<<typo, word, order[i]>>)
                       /\ ~_is_excluded(typo, word, order[i])
                       /\ ~_would_cause_false_trigger(typo, order[i],
                               validation_set, source_words, word) }
    IN  [accepted |-> IF passing = {} THEN {}
                      ELSE { <<typo, word,
                               order[CHOOSE i \in passing :
                                         \A j \in passing : i <= j]>> },
         rejected |-> {},
         excluded |-> {}]

\* Walk the boundary order of one (typo, word): boundaries already in the
\* graveyard are skipped, an excluded boundary is recorded and skipped, a
\* boundary that would cause a false trigger is rejected, the first remaining
\* boundary is accepted.
SelectBoundary(typo, word) ==
    LET order == _determine_boundary_order(typo, word)
        eligible(i) == ~is_in_graveyard(<<typo, word, order[i]>>)
        false_trigger(i) ==
            _would_cause_false_trigger(typo, order[i], validation_set,
                                       source_words, word)
        excluded(i) == _is_excluded(typo, word, order[i])
        passing == { i \in 1..Len(order) :
                       eligible(i) /\ ~excluded(i) /\ ~false_trigger(i) }
        first == IF passing = {} THEN Len(order) + 1
                 ELSE CHOOSE i \in passing : \A j \in passing : i <= j
    IN  [accepted |-> IF passing = {} THEN {}
                      ELSE { <<typo, word, order[first]>> },
         rejected |-> { <<typo, word, order[i]>> :
                          i \in { j \in 1..Len(order) :
                                    j < first /\ eligible(j) /\ ~excluded(j) } },
         excluded |-> { <<typo, word, order[i]>> :
                          i \in { j \in 1..Len(order) :
                                    j < first /\ eligible(j) /\ excluded(j) } }]

min_word_length == 3

_should_skip_short_typo(typo, word) ==
    Len(typo) < min_typo_length /\ Len(word) > min_word_length

freq_ratio == 10

\* occurrences per million words of the words that collide on a typo; a word
\* outside the table has frequency 0
cached_word_frequency(word) ==
    CASE word = "the"  -> 50000
      [] word = "tech" -> 50
      [] word = "then" -> 1000
      [] word = "than" -> 1100
      [] OTHER -> 0

\* the distinct words one typo stands for
unique_words(typo) == { tw[2] : tw \in { x \in raw_typo_map : x[1] = typo } }

\* list(set(word_list)): the words of one typo in the iteration order of the
\* set; words of equal frequency come in the order of set_order
list_of_set(words) ==
    CHOOSE l \in OrdersOf(words) :
        \A i, j \in DOMAIN l :
            /\ i < j
            /\ \E m \in DOMAIN set_order : set_order[m] = l[i]
            /\ \E n \in DOMAIN set_order : set_order[n] = l[j]
            => \E m, n \in DOMAIN set_order :
                   m < n /\ set_order[m] = l[i] /\ set_order[n] = l[j]

\* the words that tie with another word of the same typo
tied_words(typo_map) ==
    { tw[2] : tw \in { x \in typo_map :
                 \E y \in typo_map :
                     /\ y[1] = x[1]
                     /\ y[2] # x[2]
                     /\ cached_word_frequency(y[2]) = cached_word_frequency(x[2]) } }

\* variant: every word of a colliding typo is accepted
process_collision_case_all(typo, unique_words_list) ==
    [accepted |-> { unique_words_list[i] : i \in DOMAIN unique_words_list },
     ambiguous |-> FALSE]

\* variant: a runner-up of frequency 0 counts as a vanishingly small
\* epsilon, so that a winner of frequency 0 does not win
process_collision_case_epsilon(typo, unique_words_list) ==
    LET f(i) == cached_word_frequency(unique_words_list[i])
        n == Len(unique_words_list)
        first_max(among) ==
            CHOOSE i \in among : /\ \A j \in among : f(j) <= f(i)
                                 /\ \A j \in among : j < i => f(j) < f(i)
        most_common == first_max(1..n)
        second_most == first_max((1..n) \ {most_common})
        wins == IF f(second_most) = 0 THEN f(most_common) > 0
                ELSE f(most_common) > freq_ratio * f(second_most)
    IN  [accepted |-> IF wins THEN {unique_words_list[most_common]} ELSE {},
         ambiguous |-> ~wins]

\* Collision resolution: the words are sorted by frequency, highest first,
\* equal frequencies in the order of the list; the first word wins when
\* the ratio of its frequency to the second one's exceeds freq_ratio, the
\* ratio being infinite when the second frequency is 0; otherwise the
\* typo is ambiguous.
process_collision_case(typo, unique_words_list) ==
    LET f(i) == cached_word_frequency(unique_words_list[i])
        n == Len(unique_words_list)
        first_max(among) ==
            CHOOSE i \in among : /\ \A j \in among : f(j) <= f(i)
                                 /\ \A j \in among : j < i => f(j) < f(i)
        most_common == first_max(1..n)
        second_most == first_max((1..n) \ {most_common})
        wins == \/ f(second_most) = 0
                \/ f(most_common) > freq_ratio * f(second_most)
    IN  [accepted |-> IF wins THEN {unique_words_list[most_common]} ELSE {},
         ambiguous |-> ~wins]

\* one typo of the map: a single word is taken as it is, several words go
\* through collision resolution
_process_typo_worker(typo) ==
    IF Cardinality(unique_words(typo)) = 1
    THEN [accepted |-> unique_words(typo), ambiguous |-> FALSE]
    ELSE process_collision_case(typo, list_of_set(unique_words(typo)))

CandidateSelectionPass ==
    /\ pc = "candidate"
    /\ LET open == { typo \in Typos : ~is_typo_covered(typo) }
           ambiguous == { typo \in open : _process_typo_worker(typo).ambiguous }
           todo == UNION { { <<typo, w>> : w \in _process_typo_worker(typo).accepted } :
                             typo \in open }
           too_short == { tw \in todo : _should_skip_short_typo(tw[1], tw[2]) }
           tried == todo \ too_short
           accepted == UNION { SelectBoundary(tw[1], tw[2]).accepted : tw \in tried }
           rejected == UNION { SelectBoundary(tw[1], tw[2]).rejected : tw \in tried }
           excluded == UNION { SelectBoundary(tw[1], tw[2]).excluded : tw \in tried }
       IN  /\ active_corrections' = active_corrections \cup accepted
           /\ graveyard' =
                  add_to_graveyard(
                      add_to_graveyard(
                          add_to_graveyard(
                              add_to_graveyard(graveyard, rejected, "FALSE_TRIGGER"),
                              excluded, "EXCLUDED_BY_PATTERN"),
                          { <<tw[1], tw[2], "NONE">> : tw \in too_short }, "TOO_SHORT"),
                      UNION { { <<typo, w, "NONE">> : w \in unique_words(typo) } :
                                typo \in ambiguous },
                      "COLLISION_AMBIGUOUS")
    /\ pc' = pass_after("candidate")
    /\ UNCHANGED <<iteration_start, call, inputs, caches, walk, solves, active_patterns,
                   pattern_replacements, current_iteration, previous, converged>>

(***************************************************************************)
(* Platform substring conflict pass (section 4.5), pairwise version of     *)
(* PlatformSubstringConflictPass.run.                                      *)
(***************************************************************************)
BOUNDARY_PRIORITY(b) ==
    CASE b = "NONE"  -> 0
      [] b = "LEFT"  -> 1
      [] b = "RIGHT" -> 1
      [] b = "BOTH"  -> 2
      [] OTHER       -> 0

_is_substring(shorter, longer) == contains(longer, shorter) /\ shorter # longer

_should_remove_shorter(direction, shorter_word, longer_word, shorter_boundary, longer_boundary) ==
    IF shorter_word = longer_word
    THEN BOUNDARY_PRIORITY(longer_boundary) > BOUNDARY_PRIORITY(shorter_boundary)
    ELSE IF direction = "RTL"
    THEN TRUE
    ELSE BOUNDARY_PRIORITY(longer_boundary) > BOUNDARY_PRIORITY(shorter_boundary)

\* every (correction1, correction2) whose formatted typos conflict
ConflictPairs(all) ==
    { pr \in all \X all : _is_substring(FormattedOf(pr[1]), FormattedOf(pr[2])) }

run_corrections_to_remove(all) ==
    { IF _should_remove_shorter(match_direction, pr[1][2], pr[2][2],
                                pr[1][3], pr[2][3])
      THEN pr[1] ELSE pr[2] : pr \in ConflictPairs(all) }

\* variant: the losers are recorded in the graveyard, but only patterns are
\* taken out of the active sets
run_leaving_corrections_active ==
    /\ pc = "platform"
    /\ detection = "pairwise"
    /\ LET all == active_corrections \cup active_patterns
           removed == run_corrections_to_remove(all)
           gone_patterns == removed \cap active_patterns
       IN  /\ active_corrections' = active_corrections
           /\ active_patterns' = active_patterns \ gone_patterns
           /\ pattern_replacements' =
                  remove_pattern(pattern_replacements, gone_patterns)
           /\ graveyard' =
                  add_to_graveyard(graveyard, removed, "PLATFORM_CONSTRAINT")
    /\ pc' = pass_after("platform")
    /\ UNCHANGED <<iteration_start, call, inputs, caches, walk, solves, current_iteration, previous, converged>>

\* variant: the graveyard is rebuilt from this pass's removals
run_rebuilding_graveyard ==
    /\ pc = "platform"
    /\ detection = "pairwise"
    /\ LET all == active_corrections \cup active_patterns
           removed == run_corrections_to_remove(all)
           gone_patterns == removed \ active_corrections
       IN  /\ active_corrections' = active_corrections \ removed
           /\ active_patterns' = active_patterns \ gone_patterns
           /\ pattern_replacements' =
                  remove_pattern(pattern_replacements, gone_patterns)
           /\ graveyard' =
                  IF removed = {} THEN graveyard
                  ELSE [c \in removed |-> "PLATFORM_CONSTRAINT"]
    /\ pc' = pass_after("platform")
    /\ UNCHANGED <<iteration_start, call, inputs, caches, walk, solves, current_iteration, previous, converged>>

PlatformSubstringConflictPass ==
    /\ pc = "platform"
    /\ detection = "pairwise"
    /\ LET all == active_corrections \cup active_patterns
           removed == run_corrections_to_remove(all)
           \* a triple in active_corrections is removed from there only
           gone_patterns == removed \ active_corrections
       IN  /\ active_corrections' = active_corrections \ removed
           /\ active_patterns' = active_patterns \ gone_patterns
           /\ pattern_replacements' =
                  remove_pattern(pattern_replacements, gone_patterns)
           /\ graveyard' =
                  add_to_graveyard(graveyard, removed, "PLATFORM_CONSTRAINT")
    /\ pc' = pass_after("platform")
    /\ UNCHANGED <<iteration_start, call, inputs, caches, walk, solves, current_iteration, previous, converged>>

(***************************************************************************)
(* Platform substring conflict pass (section 4.5), bucketed version:       *)
(* platform_substring_conflict_detection.                                  *)
(***************************************************************************)
is_substring(shorter, longer) ==
    IF shorter = "" \/ longer = "" \/ shorter = longer
    THEN FALSE
    ELSE \/ startswith(longer, shorter)
         \/ endswith(longer, shorter)
         \/ contains(longer, shorter)

should_remove_shorter(direction, shorter_word, longer_word, shorter_boundary, longer_boundary) ==
    IF shorter_word = longer_word
    THEN ~(BOUNDARY_PRIORITY(shorter_boundary) < BOUNDARY_PRIORITY(longer_boundary))
    ELSE IF direction = "RTL"
    THEN ~(BOUNDARY_PRIORITY(shorter_boundary) < BOUNDARY_PRIORITY(longer_boundary))
    ELSE ~(BOUNDARY_PRIORITY(shorter_boundary) < BOUNDARY_PRIORITY(longer_boundary))

\* the correction process_conflict_pair marks for removal, as a set; empty
\* when one of the two is already marked
process_conflict_pair(correction1, correction2, direction, corrections_to_remove_set) ==
    IF correction1 \in corrections_to_remove_set
           \/ correction2 \in corrections_to_remove_set
    THEN {}
    ELSE IF should_remove_shorter(direction, correction1[2], correction2[2],
                                  correction1[3], correction2[3])
    THEN {correction1}
    ELSE {correction2}

\* orders in which the pass may meet the active triples: list(corrections)
\* followed by list(patterns), each in set iteration order, stably sorted by
\* the length of the formatted typo
RECURSIVE ListingOrders(_, _)
ListingOrders(corrections, patterns) ==
    IF corrections \cup patterns = {}
    THEN {<<>>}
    ELSE LET all == corrections \cup patterns
             shortest == { c \in all : \A d \in all :
                              Len(FormattedOf(c)) <= Len(FormattedOf(d)) }
             first == IF shortest \cap corrections # {}
                      THEN shortest \cap corrections ELSE shortest
         IN  UNION { { <<c>> \o rest :
                        rest \in ListingOrders(corrections \ {c}, patterns \ {c}) }
                     : c \in first }

\* formatted_to_corrections: the formatted typos in order of first
\* appearance, and the corrections filed under one formatted typo
formatted_keys(listing) ==
    CHOOSE result \in
        { [r \in 1..Cardinality(first) |->
              FormattedOf(listing[CHOOSE i \in first :
                                      Cardinality({ j \in first : j <= i }) = r])] :
            first \in { { i \in DOMAIN listing :
                            \A j \in 1..(i - 1) :
                                FormattedOf(listing[j]) # FormattedOf(listing[i]) } } }
        : TRUE

corrections_for(listing, formatted_typo) ==
    SelectSeq(listing, LAMBDA c : FormattedOf(c) = formatted_typo)

build_length_buckets(keys) ==
    [n \in { Len(keys[i]) : i \in DOMAIN keys } |->
        SelectSeq(keys, LAMBDA f : Len(f) = n)]

\* the first-character index: candidates_by_char[index_key], in the order the
\* formatted typos were added
index_key(formatted_typo) == SubSeq(formatted_typo, 1, 1)

candidates_by_char(candidates, key) ==
    SelectSeq(candidates, LAMBDA s : index_key(s) = key)

\* every (correction1, correction2) of two lists, correction1 outermost
combinations(shorter_corrections, corrections_for_typo) ==
    [k \in 1..(Len(shorter_corrections) * Len(corrections_for_typo)) |->
        <<shorter_corrections[((k - 1) \div Len(corrections_for_typo)) + 1],
          corrections_for_typo[((k - 1) % Len(corrections_for_typo)) + 1]>>]

\* the pairs check_bucket_conflicts examines for one formatted typo
RECURSIVE pairs_to_process(_, _, _)
pairs_to_process(shorter_typos, listing, formatted_typo) ==
    IF shorter_typos = <<>>
    THEN <<>>
    ELSE (IF is_substring(Head(shorter_typos), formatted_typo)
          THEN combinations(corrections_for(listing, Head(shorter_typos)),
                            corrections_for(listing, formatted_typo))
          ELSE <<>>)
         \o pairs_to_process(Tail(shorter_typos), listing, formatted_typo)

\* Each step of the three loops below binds the sets it has accumulated
\* through a one-element set, so that they are values when the next step
\* reads them.
RECURSIVE mark_pairs(_, _, _)
mark_pairs(pairs, direction, corrections_to_remove_set) ==
    IF pairs = <<>>
    THEN corrections_to_remove_set
    ELSE CHOOSE result \in
             { mark_pairs(Tail(pairs), direction, marked) :
                 marked \in { corrections_to_remove_set \cup
                     process_conflict_pair(Head(pairs)[1], Head(pairs)[2],
                         direction, corrections_to_remove_set) } } : TRUE

RECURSIVE check_bucket_conflicts(_, _, _, _, _)
check_bucket_conflicts(current_bucket, candidates, listing, direction, corrections_to_remove_set) ==
    IF current_bucket = <<>>
    THEN [candidates |-> candidates,
          corrections_to_remove_set |-> corrections_to_remove_set]
    ELSE LET formatted_typo == Head(current_bucket)
             shorter_typos ==
                 candidates_by_char(candidates, index_key(formatted_typo))
         IN  CHOOSE result \in
                 { check_bucket_conflicts(Tail(current_bucket), r[1], listing,
                                          direction, r[2]) :
                     r \in { <<Append(candidates, formatted_typo),
                               mark_pairs(pairs_to_process(shorter_typos,
                                              listing, formatted_typo),
                                          direction, corrections_to_remove_set)>> } }
                 : TRUE

\* buckets walked in order of increasing length (section 4.5, step 3)
RECURSIVE walk_buckets(_, _, _, _, _, _)
walk_buckets(lengths, length_buckets, candidates, listing, direction, corrections_to_remove_set) ==
    IF lengths = {}
    THEN corrections_to_remove_set
    ELSE LET n == CHOOSE x \in lengths : \A y \in lengths : x <= y
         IN  CHOOSE result \in
                 { walk_buckets(lengths \ {n}, length_buckets, r.candidates,
                                listing, direction, r.corrections_to_remove_set) :
                     r \in { check_bucket_conflicts(length_buckets[n], candidates,
                                 listing, direction, corrections_to_remove_set) } }
                 : TRUE

detect_bucket_conflicts(listing) ==
    CHOOSE result \in
        { walk_buckets(DOMAIN length_buckets, length_buckets, <<>>, listing,
                       match_direction, {}) :
            length_buckets \in { build_length_buckets(formatted_keys(listing)) } }
        : TRUE

\* section 4.5, step 4: every correction that shares the formatted typo of a
\* losing correction is removed and recorded
PlatformSubstringConflictBuckets ==
    /\ pc = "platform"
    /\ detection = "buckets"
    /\ \E listing \in ListingOrders(active_corrections, active_patterns) :
       \E marked \in { detect_bucket_conflicts(listing) } :
       \E removed \in { { c \in active_corrections \cup active_patterns :
                            \E m \in marked : FormattedOf(c) = FormattedOf(m) } } :
         LET gone_patterns == removed \ active_corrections
         IN  /\ active_corrections' = active_corrections \ removed
             /\ active_patterns' = active_patterns \ gone_patterns
             /\ pattern_replacements' =
                    remove_pattern(pattern_replacements, gone_patterns)
             /\ graveyard' =
                    add_to_graveyard(graveyard, removed, "PLATFORM_CONSTRAINT")
    /\ pc' = pass_after("platform")
    /\ UNCHANGED <<iteration_start, call, inputs, caches, walk, solves, current_iteration, previous, converged>>

(***************************************************************************)
(* Platform substring conflict pass (section 4.5), detection of one bucket *)
(* by worker processes: platform_conflicts/detection.py and parallel.py.   *)
(***************************************************************************)
PARALLEL_BUCKET_THRESHOLD == 100

\* code point order of the characters of formatted typos (Python str <)
CodePointOrder == "0123456789:abcdefghijklmnopqrstuvwxyz"

ord(ch) ==
    CHOOSE i \in 1..Len(CodePointOrder) : SubSeq(CodePointOrder, i, i) = ch

RECURSIVE str_less(_, _)
str_less(s, t) ==
    IF t = "" THEN FALSE
    ELSE IF s = "" THEN TRUE
    ELSE IF SubSeq(s, 1, 1) = SubSeq(t, 1, 1)
    THEN str_less(SubSeq(s, 2, Len(s)), SubSeq(t, 2, Len(t)))
    ELSE ord(SubSeq(s, 1, 1)) < ord(SubSeq(t, 1, 1))

\* sort key (formatted_typo, shorter_formatted_typo) of a conflict tuple
conflict_key_less(x, y) ==
    \/ str_less(x[1], y[1])
    \/ x[1] = y[1] /\ str_less(x[2], y[2])

\* sorted(all_conflicts, key=...): stable, smallest key first
RECURSIVE sorted_conflicts(_)
sorted_conflicts(all_conflicts) ==
    IF all_conflicts = <<>>
    THEN <<>>
    ELSE CHOOSE result \in
             { <<all_conflicts[i]>> \o sorted_conflicts(
                   [k \in 1..(Len(all_conflicts) - 1) |->
                       IF k < i THEN all_conflicts[k] ELSE all_conflicts[k + 1]]) :
                 i \in { j \in DOMAIN all_conflicts :
                           /\ \A k \in DOMAIN all_conflicts :
                                  ~conflict_key_less(all_conflicts[k], all_conflicts[j])
                           /\ \A k \in 1..(j - 1) :
                                  conflict_key_less(all_conflicts[j], all_conflicts[k]) } }
             : TRUE

divide_into_chunks(items, num_chunks) ==
    IF num_chunks <= 1
    THEN <<items>>
    ELSE LET len == Len(items)
             chunk_size == IF len \div num_chunks > 1 THEN len \div num_chunks ELSE 1
         IN  [k \in 1..((len + chunk_size - 1) \div chunk_size) |->
                 SubSeq(items, (k - 1) * chunk_size + 1,
                        IF k * chunk_size < len THEN k * chunk_size ELSE len)]

\* the conflict tuples (formatted_typo, shorter_formatted_typo) one worker
\* finds for its chunk; nothing is marked here
detect_conflicts_for_chunk(typos_chunk, candidates) ==
    LET shorter_of(i) ==
            SelectSeq(candidates_by_char(candidates, index_key(typos_chunk[i])),
                      LAMBDA s : is_substring(s, typos_chunk[i]))
        upto(found, p) == { q \in found :
                              q[1] < p[1] \/ (q[1] = p[1] /\ q[2] <= p[2]) }
    IN  CHOOSE result \in
            { [r \in 1..Cardinality(found) |->
                  LET p == CHOOSE q \in found : Cardinality(upto(found, q)) = r
                  IN  <<typos_chunk[p[1]], shorter_of(p[1])[p[2]]>>] :
                found \in { UNION { { <<i, k>> : k \in 1..Len(shorter_of(i)) } :
                                      i \in DOMAIN typos_chunk } } } : TRUE

\* the conflicts replayed one after the other in the order given
RECURSIVE replay_conflicts(_, _, _, _)
replay_conflicts(conflicts, listing, direction, corrections_to_remove_set) ==
    IF conflicts = <<>>
    THEN corrections_to_remove_set
    ELSE CHOOSE result \in
             { replay_conflicts(Tail(conflicts), listing, direction, marked) :
                 marked \in { mark_pairs(
                     pairs_to_process(<<Head(conflicts)[2]>>, listing,
                                      Head(conflicts)[1]),
                     direction, corrections_to_remove_set) } } : TRUE

\* variant: the conflicts are replayed in the order the workers returned them
resolve_conflicts_as_returned(all_conflicts, listing, direction, corrections_to_remove_set) ==
    replay_conflicts(all_conflicts, listing, direction, corrections_to_remove_set)

resolve_conflicts_sequential(all_conflicts, listing, direction, corrections_to_remove_set) ==
    replay_conflicts(sorted_conflicts(all_conflicts), listing, direction,
                     corrections_to_remove_set)

RECURSIVE flatten(_)
flatten(lists) ==
    IF lists = <<>> THEN <<>> ELSE Head(lists) \o flatten(Tail(lists))

\* the walk before its first bucket
walk_of(listing) ==
    [phase |-> "walking",
     listing |-> listing,
     keys |-> formatted_keys(listing),
     lengths_left |-> { Len(FormattedOf(listing[i])) : i \in DOMAIN listing },
     candidates |-> <<>>,
     to_remove |-> {},
     workers_left |-> {},
     arrived |-> <<>>,
     arrival_order |-> <<>>]

idle_walk == [walk_of(<<>>) EXCEPT !.phase = "idle"]

\* the bucket the walk is at: the formatted typos of the smallest length left
current_bucket ==
    LET n == CHOOSE x \in walk.lengths_left : \A y \in walk.lengths_left : x <= y
    IN  SelectSeq(walk.keys, LAMBDA f : Len(f) = n)

current_length ==
    CHOOSE x \in walk.lengths_left : \A y \in walk.lengths_left : x <= y

use_parallel(bucket) == jobs > 1 /\ Len(bucket) >= PARALLEL_BUCKET_THRESHOLD

solver_state == <<active_corrections, active_patterns, graveyard, pattern_replacements, current_iteration, pc, previous, converged>>

\* check_bucket_conflicts up to the start of the pool, or the whole of its
\* sequential branch
StartBucket ==
    /\ walk.phase = "walking"
    /\ walk.lengths_left # {}
    /\ \E bucket \in { current_bucket } :
         IF use_parallel(bucket)
         THEN walk' = [walk EXCEPT
                          !.phase = "detecting",
                          !.workers_left =
                              DOMAIN divide_into_chunks(bucket, jobs),
                          !.arrived = <<>>,
                          !.arrival_order = <<>>]
         ELSE \E marked \in { replay_conflicts(
                                   detect_conflicts_for_chunk(bucket, walk.candidates),
                                   walk.listing, match_direction, walk.to_remove) } :
                walk' = [walk EXCEPT
                            !.candidates = walk.candidates \o bucket,
                            !.to_remove = marked,
                            !.lengths_left = walk.lengths_left \ {current_length}]
    /\ UNCHANGED <<iteration_start, call, inputs, caches, solves, solver_state>>

\* variant: the worker removes the longer typo of every conflict it finds
\* from the active corrections itself
WorkerReturns_removing ==
    /\ walk.phase = "detecting"
    /\ \E i \in walk.workers_left :
       \E found \in { detect_conflicts_for_chunk(
                          divide_into_chunks(current_bucket, jobs)[i],
                          walk.candidates) } :
         /\ walk' = [walk EXCEPT
                        !.workers_left = walk.workers_left \ {i},
                        !.arrived = Append(walk.arrived, found),
                        !.arrival_order = Append(walk.arrival_order, i)]
         /\ active_corrections' =
                { c \in active_corrections :
                    \A k \in DOMAIN found : FormattedOf(c) # found[k][1] }
    /\ UNCHANGED <<iteration_start, call, inputs, caches, solves, active_patterns, graveyard,
                   pattern_replacements, current_iteration, pc, previous,
                   converged>>

\* one worker hands back the conflicts of its chunk; pool.starmap files the
\* lists in chunk order, the model lets them arrive in any order
WorkerReturns ==
    /\ walk.phase = "detecting"
    /\ \E i \in walk.workers_left :
       \E found \in { detect_conflicts_for_chunk(
                          divide_into_chunks(current_bucket, jobs)[i],
                          walk.candidates) } :
         walk' = [walk EXCEPT
                     !.workers_left = walk.workers_left \ {i},
                     !.arrived = Append(walk.arrived, found),
                     !.arrival_order = Append(walk.arrival_order, i)]
    /\ UNCHANGED <<iteration_start, call, inputs, caches, solves, solver_state>>

\* check_bucket_conflicts after the pool: the lists are flattened, resolved
\* and the bucket joins the index of shorter typos
ResolveBucket ==
    /\ walk.phase = "detecting"
    /\ walk.workers_left = {}
    /\ \E marked \in { resolve_conflicts_sequential(flatten(walk.arrived),
                           walk.listing, match_direction, walk.to_remove) } :
         walk' = [walk EXCEPT
                     !.phase = "walking",
                     !.to_remove = marked,
                     !.candidates = walk.candidates \o current_bucket,
                     !.lengths_left = walk.lengths_left \ {current_length}]
    /\ UNCHANGED <<iteration_start, call, inputs, caches, solves, solver_state>>

\* section 4.5, step 4, once every bucket has been walked
FinishWalk ==
    /\ pc = "platform"
    /\ walk.phase = "walking"
    /\ walk.lengths_left = {}
    /\ \E removed \in { { c \in active_corrections \cup active_patterns :
                            \E m \in walk.to_remove :
                                FormattedOf(c) = FormattedOf(m) } } :
         LET gone_patterns == removed \ active_corrections
         IN  /\ active_corrections' = active_corrections \ removed
             /\ active_patterns' = active_patterns \ gone_patterns
             /\ pattern_replacements' =
                    remove_pattern(pattern_replacements, gone_patterns)
             /\ graveyard' =
                    add_to_graveyard(graveyard, removed, "PLATFORM_CONSTRAINT")
    /\ pc' = pass_after("platform")
    /\ walk' = [walk EXCEPT !.phase = "done"]
    /\ UNCHANGED <<iteration_start, call, inputs, caches, solves, current_iteration, previous, converged>>

(***************************************************************************)
(* Iterative solver (section 4.6).                                         *)
(***************************************************************************)
_get_state_counts ==
    <<Cardinality(active_corrections), Cardinality(active_patterns),
      Cardinality(DOMAIN graveyard)>>

\* variant: the graveyard count is left out of the comparison
_check_convergence_ignoring_graveyard(prev) ==
    LET counts == _get_state_counts
    IN  /\ counts[1] - prev[1] = 0
        /\ counts[2] - prev[2] = 0

\* variant: only the corrections count is compared
_check_convergence_corrections_only(prev) ==
    LET counts == _get_state_counts
    IN  counts[1] - prev[1] = 0

\* variant: the counts themselves are compared with zero, not their changes
_check_convergence_of_counts(prev) ==
    LET counts == _get_state_counts
    IN  /\ counts[1] = 0
        /\ counts[2] = 0
        /\ counts[3] = 0

\* the predicate of _check_convergence for the previous counts prev
_check_convergence(prev) ==
    LET counts == _get_state_counts
    IN  /\ counts[1] - prev[1] = 0
        /\ counts[2] - prev[2] = 0
        /\ counts[3] - prev[3] = 0

\* start of an iteration of IterativeSolver.solve
StartIteration ==
    /\ pc = "start"
    /\ current_iteration' = current_iteration + 1
    /\ pc' = passes[1]
    /\ iteration_start' = <<active_corrections, active_patterns, graveyard>>
    /\ UNCHANGED <<call, inputs, caches, walk, solves, active_corrections, active_patterns, graveyard,
                   pattern_replacements, previous, converged>>

\* the user cancels between two steps of an iteration: KeyboardInterrupt
\* leaves the pass that was running, __main__ logs it and raises it again;
\* nothing is restored on the way out
KeyboardInterrupt ==
    /\ pc \in { passes[i] : i \in DOMAIN passes } \cup {"check"}
    /\ pc' = "cancelled"
    /\ UNCHANGED <<iteration_start, call, inputs, caches, walk, solves,
                   active_corrections, active_patterns, graveyard,
                   pattern_replacements, current_iteration, previous, converged>>

\* end of an iteration: convergence check, then stop or start the next one
CheckConvergence ==
    /\ pc = "check"
    /\ converged' = _check_convergence(previous)
    /\ previous' = _get_state_counts
    /\ IF converged' \/ current_iteration >= max_iterations
       THEN pc' = "done"
       ELSE pc' = "start"
    /\ UNCHANGED <<iteration_start, call, inputs, caches, walk, solves, current_iteration, active_corrections, active_patterns,
                   graveyard, pattern_replacements>>

\* IterativeSolver.solve called a second time on the state the first solve
\* converged to
SolveAgain ==
    /\ pc = "done"
    /\ converged
    /\ solve_count = 1
    /\ solve_count' = 2
    /\ first_result' = <<active_corrections, active_patterns, DOMAIN graveyard>>
    /\ current_iteration' = 0
    /\ previous' = _get_state_counts
    /\ converged' = FALSE
    /\ pc' = "start"
    /\ UNCHANGED <<iteration_start, call, inputs, caches, walk, active_corrections, active_patterns, graveyard,
                   pattern_replacements>>

(***************************************************************************)
(* Pattern extraction (section 4.3, Extraction).                           *)
(***************************************************************************)
_MIN_OTHER_PART_LENGTH == 2

prefix_of(s, k) == SubSeq(s, 1, k)

suffix_of(s, k) == SubSeq(s, Len(s) - k + 1, Len(s))

_filter_corrections_by_boundary(corrections, boundary_type) ==
    LET allowed ==
            IF boundary_type = "RIGHT" THEN {"RIGHT", "BOTH", "NONE"}
            ELSE IF boundary_type = "LEFT" THEN {"LEFT", "BOTH", "NONE"}
            ELSE {boundary_type, "NONE"}
    IN  { c \in corrections : c[3] \in allowed }

\* the (typo_pattern, word_pattern) pair of length k cut from a correction
pattern_parts(c, k, is_suffix) ==
    IF is_suffix THEN <<suffix_of(c[1], k), suffix_of(c[2], k)>>
    ELSE <<prefix_of(c[1], k), prefix_of(c[2], k)>>

pattern_lengths(c, is_suffix) ==
    { k \in 2..(Len(c[1]) - _MIN_OTHER_PART_LENGTH) :
        /\ k <= Len(c[2])
        /\ pattern_parts(c, k, is_suffix)[1] # pattern_parts(c, k, is_suffix)[2] }

\* pattern candidates of one structural kind: key -> matching corrections
pattern_candidates(corrections, is_suffix) ==
    LET filtered == _filter_corrections_by_boundary(                        corrections, IF is_suffix THEN "RIGHT" ELSE "LEFT")
        keys == UNION { { pattern_parts(c, k, is_suffix) :
                            k \in pattern_lengths(c, is_suffix) } : c \in filtered }
    IN  [key \in keys |->
            { c \in filtered : \E k \in pattern_lengths(c, is_suffix) :
                                  pattern_parts(c, k, is_suffix) = key }]

\* prefix and suffix candidates merged, keyed (typo_pattern, word_pattern, NONE)
_extract_and_merge_patterns(corrections) ==
    LET pre == pattern_candidates(corrections, FALSE)
        suf == pattern_candidates(corrections, TRUE)
        keys == (DOMAIN pre) \cup (DOMAIN suf)
        occ(k) == (IF k \in DOMAIN pre THEN pre[k] ELSE {})
                  \cup (IF k \in DOMAIN suf THEN suf[k] ELSE {})
    IN  [key \in { <<k[1], k[2], "NONE">> : k \in keys } |->
            occ(<<key[1], key[2]>>)]

\* generalize_patterns: only patterns with two or more occurrences are
\* validated
patterns_to_validate(corrections) ==
    LET found == _extract_and_merge_patterns(corrections)
    IN  [key \in { k \in DOMAIN found : Cardinality(found[k]) >= 2 } |->
            found[key]]

(***************************************************************************)
(* Pattern validation (section 4.3, Validation and Boundary escalation).   *)
(***************************************************************************)
_determine_pattern_type(typo_pattern, occurrences) ==
    IF occurrences = {} THEN "UNKNOWN"
    ELSE IF \E c \in occurrences : /\ ~startswith(c[1], typo_pattern)
                                   /\ ~endswith(c[1], typo_pattern)
    THEN "SUBSTRING"
    ELSE IF \A c \in occurrences : startswith(c[1], typo_pattern) THEN "PREFIX"
    ELSE IF \A c \in occurrences : endswith(c[1], typo_pattern) THEN "SUFFIX"
    ELSE "SUBSTRING"

\* variant: after NONE the order falls back to BOTH, as the order for a typo
\* does
_get_pattern_boundary_order_both(natural_boundary, pattern_type) ==
    IF natural_boundary # "NONE" THEN <<natural_boundary>>
    ELSE <<"NONE", "BOTH">>

_get_pattern_boundary_order(natural_boundary, pattern_type) ==
    IF natural_boundary # "NONE" THEN <<natural_boundary>>
    ELSE IF pattern_type = "PREFIX" THEN <<"NONE", "LEFT">>
    ELSE IF pattern_type = "SUFFIX" THEN <<"NONE", "RIGHT">>
    ELSE <<"NONE">>

\* the typo with its trailing (leading) typo_pattern replaced by word_pattern
replace_suffix(typo, typo_pattern, word_pattern) ==
    SubSeq(typo, 1, Len(typo) - Len(typo_pattern)) \o word_pattern

replace_prefix(typo, typo_pattern, word_pattern) ==
    word_pattern \o SubSeq(typo, Len(typo_pattern) + 1, Len(typo))

\* does rewriting typo with the pattern give word
pattern_reproduces(typo_pattern, word_pattern, typo, word) ==
    \/ /\ endswith(typo, typo_pattern)
       /\ replace_suffix(typo, typo_pattern, word_pattern) = word
    \/ /\ startswith(typo, typo_pattern)
       /\ replace_prefix(typo, typo_pattern, word_pattern) = word

validate_pattern_for_all_occurrences(typo_pattern, word_pattern, occurrences) ==
    \A c \in occurrences :
        pattern_reproduces(typo_pattern, word_pattern, c[1], c[2])

_would_corrupt_source_word(typo_pattern, source_word, direction) ==
    IF direction = "RTL" THEN startswith(source_word, typo_pattern)
    ELSE endswith(source_word, typo_pattern)

would_corrupt_patterns(typo_pattern, source, direction) ==
    \E w \in source : _would_corrupt_source_word(typo_pattern, w, direction)

_check_pattern_conflicts_with_precalc(typo_pattern, validation, direction, boundary, target_words) ==
    /\ typo_pattern \notin validation
    /\ boundary \in {"LEFT", "BOTH"} \/ ~would_trigger_at_end(typo_pattern, validation)
    /\ boundary \in {"RIGHT", "BOTH"} \/ ~would_trigger_at_start(typo_pattern, validation)
    /\ boundary # "NONE" \/ ~is_substring_of_any(typo_pattern, validation)
    /\ ~would_corrupt_patterns(typo_pattern, target_words, direction)

check_pattern_would_incorrectly_match_other_corrections(typo_pattern, word_pattern, corrections, occurrences) ==
    \A c \in corrections \ occurrences :
        /\ endswith(c[1], typo_pattern) /\ _determine_pattern_type(typo_pattern, occurrences) = "SUFFIX"
              => replace_suffix(c[1], typo_pattern, word_pattern) = c[2]
        /\ startswith(c[1], typo_pattern) /\ _determine_pattern_type(typo_pattern, occurrences) = "PREFIX"
              => replace_prefix(c[1], typo_pattern, word_pattern) = c[2]

_check_pattern_validation_and_conflicts(typo_pattern, word_pattern, boundary, occurrences) ==
    /\ validate_pattern_for_all_occurrences(typo_pattern, word_pattern, occurrences)
    /\ ~would_corrupt_patterns(typo_pattern, source_words, match_direction)
    /\ _check_pattern_conflicts_with_precalc(typo_pattern, validation_set,
           match_direction, boundary, { c[2] : c \in occurrences })

\* does the pattern pass every check with this boundary
pattern_passes(key, boundary, occurrences, corrections) ==
    /\ _check_pattern_validation_and_conflicts(key[1], key[2], boundary, occurrences)
    /\ check_pattern_would_incorrectly_match_other_corrections(           key[1], key[2], corrections, occurrences)

_check_pattern_length(typo_pattern) == Len(typo_pattern) >= min_typo_length

\* variant: the occurrences are not rewritten to see whether the pattern
\* gives their words
_validate_single_pattern_single_threaded_unvalidated(key, occurrences, corrections) ==
    LET ok == /\ Cardinality(occurrences) >= 2
              /\ _check_pattern_length(key[1])
              /\ ~would_corrupt_patterns(key[1], source_words, match_direction)
              /\ _check_pattern_conflicts_with_precalc(key[1], validation_set,
                     match_direction, key[3], { c[2] : c \in occurrences })
              /\ check_pattern_would_incorrectly_match_other_corrections(
                     key[1], key[2], corrections, occurrences)
    IN  [is_accepted |-> ok, pattern |-> key, key |-> key]

\* single-threaded validation: the boundary of the key only
_validate_single_pattern_single_threaded(key, occurrences, corrections) ==
    LET ok == /\ Cardinality(occurrences) >= 2
              /\ _check_pattern_length(key[1])
              /\ pattern_passes(key, key[3], occurrences, corrections)
    IN  [is_accepted |-> ok, pattern |-> key, key |-> key]

\* worker validation: the boundaries of the pattern type in order
_validate_single_pattern_worker(key, occurrences, corrections) ==
    LET order == _get_pattern_boundary_order(                     key[3], _determine_pattern_type(key[1], occurrences))
        basic == Cardinality(occurrences) >= 2 /\ _check_pattern_length(key[1])
        passing == { i \in 1..Len(order) :
                       pattern_passes(key, order[i], occurrences, corrections) }
        first == CHOOSE i \in passing : \A j \in passing : i <= j
    IN  IF basic /\ passing # {}
        THEN [is_accepted |-> TRUE, pattern |-> <<key[1], key[2], order[first]>>,
              key |-> key]
        ELSE [is_accepted |-> FALSE, pattern |-> key, key |-> key]

(***************************************************************************)
(* Redundancy and batch processing of validation results.                  *)
(***************************************************************************)
PARALLEL_PATTERN_THRESHOLD == 10

check_pattern_redundant_with_other_patterns(typo_pattern, word_pattern, patterns) ==
    \E q \in patterns :
        /\ q[1] # typo_pattern
        /\ pattern_reproduces(q[1], q[2], typo_pattern, word_pattern)

MaxPatternLength(patterns) ==
    IF patterns = {} THEN 0
    ELSE LET lens == { Len(p[1]) : p \in patterns }
         IN  CHOOSE n \in lens : \A m \in lens : m <= n

\* patterns taken shortest first, each checked against those already kept
RECURSIVE non_redundant_upto(_, _)
non_redundant_upto(patterns, n) ==
    IF n = 0 THEN {}
    ELSE CHOOSE result \in
             { kept \cup { p \in patterns :
                             /\ Len(p[1]) = n
                             /\ ~check_pattern_redundant_with_other_patterns(
                                    p[1], p[2], kept) } :
                 kept \in { non_redundant_upto(patterns, n - 1) } } : TRUE

non_redundant_patterns(patterns) ==
    non_redundant_upto(patterns, MaxPatternLength(patterns))

occurrences_of(results, to_validate, patterns) ==
    UNION { to_validate[r.key] : r \in { x \in results : x.pattern \in patterns } }

\* _process_patterns_single_threaded: a redundant pattern is skipped, an
\* accepted one goes through _handle_accepted_pattern
_run_single_threaded_validation(to_validate, corrections) ==
    CHOOSE result \in
        { LET valid == { r.pattern : r \in { x \in results : x.is_accepted } }
          IN  CHOOSE inner \in
                  { [patterns |-> kept,
                     corrections_to_remove |->
                         occurrences_of(results, to_validate, kept),
                     pattern_replacements |->
                         [p \in kept |-> occurrences_of(results, to_validate, {p})],
                     rejected_patterns |->
                         { r.key : r \in { x \in results : ~x.is_accepted } }
                             \cup (valid \ kept)] :
                      kept \in { non_redundant_patterns(valid) } } : TRUE :
            results \in { { _validate_single_pattern_single_threaded(
                                k, to_validate[k], corrections) :
                            k \in DOMAIN to_validate } } } : TRUE

\* _remove_redundant_patterns_post_process: the occurrences of a redundant
\* pattern are discarded from corrections_to_remove
_remove_redundant_patterns_post_process(patterns, replacements, to_remove) ==
    CHOOSE result \in
        { [patterns |-> kept,
           corrections_to_remove |->
               to_remove \ UNION { replacements[p] : p \in patterns \ kept },
           pattern_replacements |-> [p \in kept |-> replacements[p]],
           rejected_patterns |-> patterns \ kept] :
            kept \in { non_redundant_patterns(patterns) } } : TRUE

\* run_parallel_validation: workers, _process_validation_results
\* (_handle_accepted_pattern per accepted result), then the post-process
_run_parallel_validation(to_validate, corrections) ==
    CHOOSE result \in
        { LET accepted == { r.pattern : r \in { x \in results : x.is_accepted } }
              replacements ==
                  [p \in accepted |-> occurrences_of(results, to_validate, {p})]
              to_remove == UNION { replacements[p] : p \in accepted }
          IN  CHOOSE inner \in
                  { [patterns |-> post.patterns,
                     corrections_to_remove |-> post.corrections_to_remove,
                     pattern_replacements |-> post.pattern_replacements,
                     rejected_patterns |->
                         { r.key : r \in { x \in results : ~x.is_accepted } }
                             \cup post.rejected_patterns] :
                      post \in { _remove_redundant_patterns_post_process(
                                     accepted, replacements, to_remove) } } : TRUE :
            results \in { { _validate_single_pattern_worker(
                                k, to_validate[k], corrections) :
                            k \in DOMAIN to_validate } } } : TRUE

\* variant: patterns are looked for in the first iteration only
generalize_patterns_first_iteration(corrections) ==
    IF current_iteration = 1
    THEN CHOOSE result \in
        { _run_single_threaded_validation(to_validate, corrections) :
            to_validate \in { patterns_to_validate(corrections) } } : TRUE
    ELSE [patterns |-> {}, corrections_to_remove |-> {},
          pattern_replacements |-> [q \in {} |-> {}], rejected_patterns |-> {}]

generalize_patterns(corrections) ==
    CHOOSE result \in
        { IF jobs > 1 /\ Cardinality(DOMAIN to_validate) > PARALLEL_PATTERN_THRESHOLD
          THEN _run_parallel_validation(to_validate, corrections)
          ELSE _run_single_threaded_validation(to_validate, corrections) :
            to_validate \in { patterns_to_validate(corrections) } } : TRUE

(***************************************************************************)
(* Pattern generalization pass (section 4.3, Cross-boundary deduplication  *)
(* and Commit).                                                            *)
(***************************************************************************)
\* variant: nothing is filtered
_filter_nothing(patterns, final_corrections, replacements) ==
    [final_corrections |-> final_corrections,
     safe_patterns |-> patterns,
     rejected_patterns |-> {}]

\* variant: a pattern conflicts only with a direct correction of the same
\* boundary
_filter_same_boundary_only(patterns, final_corrections, replacements) ==
    LET conflicting == patterns \cap final_corrections
    IN  [final_corrections |->
             final_corrections \cup
             UNION { replacements[q] : q \in conflicting \cap DOMAIN replacements },
         safe_patterns |-> patterns \ conflicting,
         rejected_patterns |-> conflicting]

\* variant: a conflicting pattern is rejected and its occurrences are not put
\* back
_filter_without_restore(patterns, final_corrections, replacements) ==
    LET direct_pairs == { <<c[1], c[2]>> : c \in final_corrections }
        conflicting == { q \in patterns : <<q[1], q[2]>> \in direct_pairs }
    IN  [final_corrections |-> final_corrections,
         safe_patterns |-> patterns \ conflicting,
         rejected_patterns |-> conflicting]

_filter_cross_boundary_conflicts(patterns, final_corrections, replacements) ==
    LET direct_pairs == { <<c[1], c[2]>> : c \in final_corrections }
        conflicting == { q \in patterns : <<q[1], q[2]>> \in direct_pairs }
    IN  [final_corrections |->
             final_corrections \cup
             UNION { replacements[q] : q \in conflicting \cap DOMAIN replacements },
         safe_patterns |-> patterns \ conflicting,
         rejected_patterns |-> conflicting]

PatternGeneralizationPass ==
    /\ pc = "pattern"
    /\ \E g \in { generalize_patterns(active_corrections) } :
       \E f \in { _filter_cross_boundary_conflicts(                     g.patterns, active_corrections \ g.corrections_to_remove,
                     g.pattern_replacements) } :
       LET committed == { q \in f.safe_patterns : ~is_in_graveyard(q) }
           held_back == f.safe_patterns \ committed
           corrections_after ==
               f.final_corrections \cup
               UNION { g.pattern_replacements[q] : q \in held_back }
           patterns_after == active_patterns \cup committed
           rejected == (g.rejected_patterns \cup f.rejected_patterns)
                           \ (corrections_after \cup patterns_after)
       IN  /\ active_corrections' = corrections_after
           /\ active_patterns' = patterns_after
           /\ pattern_replacements' =
                  [q \in (DOMAIN pattern_replacements) \cup committed |->
                      (IF q \in DOMAIN pattern_replacements
                       THEN pattern_replacements[q] ELSE {})
                      \cup (IF q \in committed
                            THEN g.pattern_replacements[q] ELSE {})]
           /\ graveyard' = add_to_graveyard(graveyard, rejected,
                                            "PATTERN_VALIDATION_FAILED")
    /\ pc' = pass_after("pattern")
    /\ UNCHANGED <<iteration_start, call, inputs, caches, walk, solves, current_iteration, previous, converged>>

(***************************************************************************)
(* Intra-group substring conflict removal (section 4.4).                   *)
(***************************************************************************)
\* position of the occurrence of short in long that the platform rewrites:
\* the rightmost for RTL, the leftmost for LTR
match_position(long, short, direction) ==
    LET positions == { i \in 1..(Len(long) - Len(short) + 1) :
                         SubSeq(long, i, i + Len(short) - 1) = short }
    IN  IF direction = "RTL"
        THEN CHOOSE i \in positions : \A j \in positions : j <= i
        ELSE CHOOSE i \in positions : \A j \in positions : i <= j

replace_once(long, short, word, direction) ==
    LET pos == match_position(long, short, direction)
    IN  SubSeq(long, 1, pos - 1) \o word
            \o SubSeq(long, pos + Len(short), Len(long))

RECURSIVE sort_by_length(_)
sort_by_length(cs) ==
    IF cs = {} THEN <<>>
    ELSE LET c == CHOOSE x \in cs : \A y \in cs : Len(x[1]) <= Len(y[1])
         IN  <<c>> \o sort_by_length(cs \ {c})

\* variant: the shorter typo is always kept and the longer one removed,
\* whatever the shorter rule would make of the longer typo
RECURSIVE check_against_shorter_keeping(_, _, _, _, _)
check_against_shorter_keeping(c1, shorter, i, removed_typos, direction) ==
    IF i > Len(shorter)
    THEN [is_blocked |-> FALSE, removed_typos |-> removed_typos]
    ELSE LET c2 == shorter[i]
         IN  IF c2[1] \in removed_typos \/ ~_is_substring(c2[1], c1[1])
             THEN check_against_shorter_keeping(c1, shorter, i + 1, removed_typos, direction)
             ELSE [is_blocked |-> TRUE,
                   removed_typos |-> removed_typos \cup {c1[1]}]

\* inner loop of find_substring_conflicts for one longer correction
RECURSIVE check_against_shorter(_, _, _, _, _)
check_against_shorter(c1, shorter, i, removed_typos, direction) ==
    IF i > Len(shorter)
    THEN [is_blocked |-> FALSE, removed_typos |-> removed_typos]
    ELSE LET c2 == shorter[i]
         IN  IF c2[1] \in removed_typos \/ ~_is_substring(c2[1], c1[1])
             THEN check_against_shorter(c1, shorter, i + 1, removed_typos, direction)
             ELSE IF replace_once(c1[1], c2[1], c2[2], direction) # c1[2]
             THEN check_against_shorter(c1, shorter, i + 1,
                                        removed_typos \cup {c2[1]}, direction)
             ELSE [is_blocked |-> TRUE,
                   removed_typos |-> removed_typos \cup {c1[1]}]

RECURSIVE find_substring_conflicts(_, _, _, _, _, _)
find_substring_conflicts(sorted, i, kept, shorter, removed_typos, direction) ==
    IF i > Len(sorted) THEN kept
    ELSE LET c1 == sorted[i]
         IN  IF c1[1] \in removed_typos
             THEN find_substring_conflicts(sorted, i + 1, kept, shorter,
                                           removed_typos, direction)
             ELSE LET r == check_against_shorter(c1, shorter, 1,
                                                 removed_typos, direction)
                      still == { k \in kept : k[1] \notin r.removed_typos }
                      live == SelectSeq(shorter,
                                  LAMBDA c : c[1] \notin r.removed_typos)
                  IN  IF r.is_blocked
                      THEN find_substring_conflicts(sorted, i + 1, still, live,
                                                    r.removed_typos, direction)
                      ELSE find_substring_conflicts(sorted, i + 1,
                               still \cup {c1}, Append(live, c1),
                               r.removed_typos, direction)

\* corrections of one boundary group that survive conflict removal
group_survivors(all, boundary, direction) ==
    find_substring_conflicts(        sort_by_length({ c \in all : c[3] = boundary }), 1, {}, <<>>, {}, direction)

ConflictRemovalPass ==
    /\ pc = "conflict"
    /\ \E kept \in { UNION { group_survivors(active_corrections \cup active_patterns,
                                               b, match_direction) :
                               b \in BoundaryType } } :
       LET all == active_corrections \cup active_patterns
           removed == all \ kept
           gone_patterns == removed \ active_corrections
       IN  /\ active_corrections' = active_corrections \ removed
           /\ active_patterns' = active_patterns \ gone_patterns
           /\ pattern_replacements' =
                  remove_pattern(pattern_replacements, gone_patterns)
           /\ graveyard' =
                  add_to_graveyard(graveyard, removed, "BLOCKED_BY_CONFLICT")
    /\ pc' = pass_after("conflict")
    /\ UNCHANGED <<iteration_start, call, inputs, caches, walk, solves, current_iteration, previous, converged>>

(***************************************************************************)
(* Formatted-typo cache of the platform pass (section 4.5, step 1).        *)
(***************************************************************************)
PARALLEL_FORMAT_THRESHOLD == 100

no_formatted == [c \in {} |-> ""]

no_format_call ==
    [cached_results |-> no_formatted, correction_to_formatted |-> no_formatted]

is_qmk == platform = "qmk"

\* formatting of one correction in a pool worker
_format_correction_worker(correction) ==
    IF is_qmk THEN format_boundary_markers(correction[1], correction[3])
    ELSE correction[1]

\* variant: every correction is formatted as its bare typo
_format_corrections_batch_bare(corrections_to_format) ==
    [c \in corrections_to_format |-> c[1]]

\* the corrections that are not served from the cache, formatted by the pool
\* for a large batch and by the pass's own formatting function otherwise
_format_corrections_batch(corrections_to_format) ==
    IF jobs > 1 /\ Cardinality(corrections_to_format) >= PARALLEL_FORMAT_THRESHOLD
    THEN [c \in corrections_to_format |-> _format_correction_worker(c)]
    ELSE [c \in corrections_to_format |->
              _format_typo_for_platform(c[1], c[3])]

\* Dirty corrections are dropped from the cache and formatted again, clean
\* cached ones are served from the cache, the rest are formatted for the
\* first time; everything newly formatted is written to the cache.
format_corrections_with_cache(all_corrections, cache, dirty) ==
    LET corrections_to_format ==
            { c \in all_corrections : c \in dirty \/ c \notin DOMAIN cache }
        cached_results ==
            [c \in all_corrections \ corrections_to_format |-> cache[c]]
        formatted_results_new == _format_corrections_batch(corrections_to_format)
        kept == (DOMAIN cache) \ (all_corrections \cap dirty)
    IN  [formatted_cache |->
             [c \in kept \cup corrections_to_format |->
                 IF c \in corrections_to_format
                 THEN formatted_results_new[c] ELSE cache[c]],
         cached_results |-> cached_results,
         correction_to_formatted |->
             [c \in all_corrections |->
                 IF c \in corrections_to_format
                 THEN formatted_results_new[c] ELSE cached_results[c]]]

\* corrections a caller adds and removes between formatting calls
CacheCatalogue ==
    { <<"aemr", "america", "LEFT">>, <<"aemr", "america", "NONE">>,
      <<"teh", "the", "BOTH">> }

\* DictionaryState.add_correction: the new triple is dirty
add_correction ==
    /\ \E c \in CacheCatalogue \ active_corrections :
          /\ active_corrections' = active_corrections \cup {c}
          /\ dirty_corrections' = dirty_corrections \cup {c}
    /\ UNCHANGED <<iteration_start, call, inputs, walk, solves, active_patterns, graveyard,
                   pattern_replacements, current_iteration, pc, previous,
                   converged, formatted_cache, format_call>>

\* DictionaryState.remove_correction: the removed triple is dirty
remove_correction ==
    /\ \E c \in CacheCatalogue \cap active_corrections :
          /\ active_corrections' = active_corrections \ {c}
          /\ dirty_corrections' = dirty_corrections \cup {c}
    /\ UNCHANGED <<iteration_start, call, inputs, walk, solves, active_patterns, graveyard,
                   pattern_replacements, current_iteration, pc, previous,
                   converged, formatted_cache, format_call>>

\* step 1 of the platform pass: format every active correction and pattern
FormatCorrections ==
    /\ \E r \in { format_corrections_with_cache(
                      active_corrections \cup active_patterns,
                      formatted_cache, dirty_corrections) } :
          /\ formatted_cache' = r.formatted_cache
          /\ format_call' = [cached_results |-> r.cached_results,
                             correction_to_formatted |-> r.correction_to_formatted]
    /\ UNCHANGED <<iteration_start, call, inputs, walk, solves, solver_state, dirty_corrections>>

\* DictionaryState.clear_dirty_flag, called when an iteration converged
clear_dirty_flag ==
    /\ dirty_corrections # {}
    /\ dirty_corrections' = {}
    /\ UNCHANGED <<iteration_start, call, inputs, walk, solves, solver_state, formatted_cache,
                   format_call>>

(***************************************************************************)
(* Specification.                                                          *)
(***************************************************************************)
Init ==
    /\ raw_typo_map \in { m \in SUBSET TypoCatalogue : Cardinality(m) <= MaxTypos }
                            \cup {LongFamily, LongFamilyWithStem, BothFamily,
                                  CollisionFamily, TwoPatternFamily,
                                  GarbagePair, ConflictFamily,
                                  ReproductionFamily, ExcludedFamily,
                                  BothFamilyWithStem}
    /\ validation_set \in SUBSET ValidationCatalogue
    /\ source_words = { tw[2] : tw \in raw_typo_map }
    /\ set_order \in OrdersOf(tied_words(raw_typo_map))
    /\ exclusions \in IF raw_typo_map = ExcludedFamily THEN ExclusionChoices ELSE {{}}
    /\ platform \in {"qmk", "espanso"}
    /\ max_iterations \in MaxIterationsChoices
    /\ min_typo_length \in MinTypoLengthChoices
    /\ jobs \in {1, 2}
    /\ detection \in {"pairwise", "buckets"}
    /\ active_corrections = {}
    /\ active_patterns = {}
    /\ graveyard = [c \in {} |-> "NONE"]
    /\ pattern_replacements = [c \in {} |-> {}]
    /\ current_iteration = 0
    /\ pc = "start"
    /\ previous = <<0, 0, 0>>
    /\ converged = FALSE
    /\ solve_count = 1
    /\ first_result = <<{}, {}, {}>>
    /\ walk = idle_walk
    /\ formatted_cache = no_formatted
    /\ call = no_call
    /\ iteration_start = <<active_corrections, active_patterns, graveyard>>
    /\ dirty_corrections = {}
    /\ format_call = no_format_call

Next ==
    \/ StartIteration
    \/ CandidateSelectionPass
    \/ PatternGeneralizationPass
    \/ ConflictRemovalPass
    \/ PlatformSubstringConflictPass
    \/ PlatformSubstringConflictBuckets
    \/ CheckConvergence
    \/ SolveAgain

Spec == Init /\ [][Next]_vars

\* Fair runs of the solver: the driver is a single thread that runs each step
\* of the loop as soon as the previous one returns.  The inputs are those of
\* Init whose typos share no pattern, and one family that shares a suffix.
FairCatalogue == {<<"teh", "the">>, <<"tehn", "then">>, <<"tain", "train">>}

FairFamily == {<<"xakei", "xakie">>, <<"yakei", "yakie">>, <<"kei", "kie">>}

FairInit ==
    /\ Init
    /\ raw_typo_map \in ((SUBSET FairCatalogue) \ {{}}) \cup {FairFamily}
    /\ validation_set \in {{}, ValidationCatalogue}
    /\ min_typo_length = 2
    /\ jobs = 1

FairSpec == FairInit /\ [][Next]_vars /\ WF_vars(Next)

\* The solver under a user who may cancel at any step of an iteration.
CancelNext ==
    \/ StartIteration
    \/ CandidateSelectionPass
    \/ PatternGeneralizationPass
    \/ ConflictRemovalPass
    \/ PlatformSubstringConflictPass
    \/ PlatformSubstringConflictBuckets
    \/ CheckConvergence
    \/ SolveAgain
    \/ KeyboardInterrupt

CancelSpec == FairInit /\ [][CancelNext]_vars

\* Fair runs on the inputs that climb the boundary ladder: a correction blocked
\* by a shorter one, a correction whose laxest boundary is a false trigger, and
\* a family that shares suffix patterns; the pairwise version of the platform
\* pass runs on the single-correction input.
LadderInit ==
    /\ FairInit
    /\ raw_typo_map \in { {<<"teh", "the">>, <<"tehn", "then">>},
                          {<<"tain", "train">>}, FairFamily }
    /\ detection = "pairwise" => raw_typo_map = {<<"tain", "train">>}

LadderSpec == LadderInit /\ [][Next]_vars /\ WF_vars(Next)


(***************************************************************************)
(* The platform substring conflict pass run on a state that a caller has   *)
(* filled through DictionaryState.add_correction, several words under one  *)
(* typo and boundary included.                                             *)
(***************************************************************************)
MaxInjected == 3

InjectedCatalogue ==
    { <<"aemr", w, b>> : w \in {"america", "american"}, b \in BoundaryType }
        \cup { <<"aemrs", "americas", b>> : b \in BoundaryType }

PassInit ==
    /\ raw_typo_map = {}
    /\ set_order = <<>>
    /\ exclusions = {}
    /\ validation_set = {}
    /\ source_words = {}
    /\ platform \in {"qmk", "espanso"}
    /\ max_iterations = 10
    /\ min_typo_length = 2
    /\ jobs = 1
    /\ detection \in {"pairwise", "buckets"}
    /\ active_corrections \in
           { s \in SUBSET InjectedCatalogue : Cardinality(s) <= MaxInjected }
    /\ active_patterns = {}
    /\ graveyard = [c \in {} |-> "NONE"]
    /\ pattern_replacements = [c \in {} |-> {}]
    /\ current_iteration = 1
    /\ pc = "platform"
    /\ previous = <<0, 0, 0>>
    /\ converged = FALSE
    /\ solve_count = 1
    /\ first_result = <<{}, {}, {}>>
    /\ walk = idle_walk
    /\ formatted_cache = no_formatted
    /\ call = no_call
    /\ iteration_start = <<active_corrections, active_patterns, graveyard>>
    /\ dirty_corrections = {}
    /\ format_call = no_format_call

PassNext ==
    \/ PlatformSubstringConflictPass
    \/ PlatformSubstringConflictBuckets

PassSpec == PassInit /\ [][PassNext]_vars

(***************************************************************************)
(* The platform substring conflict pass with worker processes, run on a    *)
(* state whose formatted typos fill one bucket up to the threshold of the  *)
(* parallel branch.                                                        *)
(***************************************************************************)
DecimalDigits == "0123456789"

\* as many corrections of one formatted length as the parallel branch needs
FillerCorrections ==
    [k \in 1..PARALLEL_BUCKET_THRESHOLD |->
        <<"zzzz" \o SubSeq(DecimalDigits, ((k - 1) \div 10) + 1, ((k - 1) \div 10) + 1)
                 \o SubSeq(DecimalDigits, ((k - 1) % 10) + 1, ((k - 1) % 10) + 1),
          "zzzz", "NONE">>]

\* a short typo and two longer typos of one length that contain it, placed
\* at the two ends of the listing or together at its start
BucketListings ==
    { <<s>> \o rest :
        s \in { <<"aemr", "america", b>> : b \in BoundaryType },
        rest \in UNION { { <<x>> \o FillerCorrections \o <<y>>,
                           <<y>> \o FillerCorrections \o <<x>>,
                           <<x, y>> \o FillerCorrections } :
                    x \in { <<"aemrsx", "americas", b>> : b \in BoundaryType },
                    y \in { <<"aemrsy", "americana", b>> : b \in BoundaryType } } }

MaxJobs == 3

ParInit ==
    /\ raw_typo_map = {}
    /\ set_order = <<>>
    /\ exclusions = {}
    /\ validation_set = {}
    /\ source_words = {}
    /\ platform \in {"qmk", "espanso"}
    /\ max_iterations = 10
    /\ min_typo_length = 2
    /\ jobs \in 1..MaxJobs
    /\ detection = "workers"
    /\ \E listing \in BucketListings :
         /\ active_corrections = { listing[i] : i \in DOMAIN listing }
         /\ walk = walk_of(listing)
    /\ formatted_cache = no_formatted
    /\ call = no_call
    /\ dirty_corrections = {}
    /\ format_call = no_format_call
    /\ active_patterns = {}
    /\ graveyard = [c \in {} |-> "NONE"]
    /\ pattern_replacements = [c \in {} |-> {}]
    /\ current_iteration = 1
    /\ pc = "platform"
    /\ previous = <<0, 0, 0>>
    /\ converged = FALSE
    /\ solve_count = 1
    /\ first_result = <<{}, {}, {}>>
    /\ iteration_start = <<active_corrections, active_patterns, graveyard>>

ParNext ==
    \/ StartBucket
    \/ WorkerReturns
    \/ ResolveBucket
    \/ FinishWalk

ParSpec == ParInit /\ [][ParNext]_vars

(***************************************************************************)
(* The formatted-typo cache under a caller that adds and removes           *)
(* corrections and formats the active set in any order, beside a hundred   *)
(* corrections that were there from the start.                             *)
(***************************************************************************)
CacheInit ==
    /\ raw_typo_map = {}
    /\ set_order = <<>>
    /\ exclusions = {}
    /\ validation_set = {}
    /\ source_words = {}
    /\ platform \in {"qmk", "espanso"}
    /\ max_iterations = 10
    /\ min_typo_length = 2
    /\ jobs \in {1, 2}
    /\ detection = "workers"
    /\ active_corrections \in
           { {}, { FillerCorrections[k] : k \in DOMAIN FillerCorrections } }
    /\ dirty_corrections \in { {}, active_corrections }
    /\ formatted_cache = no_formatted
    /\ call = no_call
    /\ format_call = no_format_call
    /\ active_patterns = {}
    /\ graveyard = [c \in {} |-> "NONE"]
    /\ pattern_replacements = [c \in {} |-> {}]
    /\ current_iteration = 1
    /\ pc = "platform"
    /\ previous = <<0, 0, 0>>
    /\ converged = FALSE
    /\ solve_count = 1
    /\ first_result = <<{}, {}, {}>>
    /\ walk = idle_walk
    /\ iteration_start = <<active_corrections, active_patterns, graveyard>>

CacheNext ==
    \/ add_correction
    \/ remove_correction
    \/ FormatCorrections
    \/ clear_dirty_flag

CacheSpec == CacheInit /\ [][CacheNext]_vars

(***************************************************************************)
(* Stage functions called outside the solver loop.  Each is called once,   *)
(* on arguments drawn from a catalogue, and `call` keeps its arguments and *)
(* its result.                                                             *)
(***************************************************************************)

\* all the other variables, at rest
no_solver ==
    /\ raw_typo_map = {}
    /\ set_order = <<>>
    /\ exclusions = {}
    /\ validation_set = {}
    /\ source_words = {}
    /\ platform = "qmk"
    /\ max_iterations = 10
    /\ min_typo_length = 2
    /\ jobs = 1
    /\ detection = "buckets"
    /\ active_corrections = {}
    /\ active_patterns = {}
    /\ graveyard = [c \in {} |-> "NONE"]
    /\ pattern_replacements = [c \in {} |-> {}]
    /\ current_iteration = 0
    /\ pc = "done"
    /\ previous = <<0, 0, 0>>
    /\ converged = TRUE
    /\ solve_count = 1
    /\ first_result = <<{}, {}, {}>>
    /\ walk = idle_walk
    /\ formatted_cache = no_formatted
    /\ dirty_corrections = {}
    /\ format_call = no_format_call

(***************************************************************************)
(* QMK ranking.                                                            *)
(***************************************************************************)

\* the (typo, word) pairs of the patterns
pattern_typos(patterns) ==
    { <<patterns[i][1], patterns[i][2]>> : i \in DOMAIN patterns }

\* the (typo, word) pairs of the corrections the patterns replaced
replaced_by_patterns(patterns, replacements) ==
    UNION { { <<r[1], r[2]>> : r \in replacements[patterns[i]] } :
              i \in { j \in DOMAIN patterns : patterns[j] \in DOMAIN replacements } }

\* user words first, then patterns by (typo, word), then the corrections no
\* pattern replaced; each list keeps the order of `corrections`
separate_by_type(corrections, patterns, replacements, user_words) ==
    LET is_user(c) == c[2] \in user_words
        is_pattern(c) ==
            /\ ~is_user(c)
            /\ <<c[1], c[2]>> \in pattern_typos(patterns)
        is_direct(c) ==
            /\ ~is_user(c)
            /\ <<c[1], c[2]>> \notin pattern_typos(patterns)
            /\ <<c[1], c[2]>> \notin replaced_by_patterns(patterns, replacements)
    IN  [user_corrections    |-> SelectSeq(corrections, is_user),
         pattern_corrections |-> SelectSeq(corrections, is_pattern),
         direct_corrections  |-> SelectSeq(corrections, is_direct)]

\* sum of the word frequencies of the replaced corrections
RECURSIVE total_freq(_)
total_freq(replacements) ==
    IF replacements = {}
    THEN 0
    ELSE LET r == CHOOSE x \in replacements : TRUE
         IN  cached_word_frequency(r[2]) + total_freq(replacements \ {r})

\* <<score, typo, word, boundary>> for every pattern that has replacements
score_patterns(pattern_corrections, replacements) ==
    LET has_replacements(c) == c \in DOMAIN replacements
        scored == SelectSeq(pattern_corrections, has_replacements)
    IN  [i \in 1..Len(scored) |->
            <<total_freq(replacements[scored[i]]),
              scored[i][1], scored[i][2], scored[i][3]>>]

\* <<score, typo, word, boundary>> for every direct correction
score_direct_corrections(direct_corrections) ==
    [i \in 1..Len(direct_corrections) |->
        <<cached_word_frequency(direct_corrections[i][2]),
          direct_corrections[i][1], direct_corrections[i][2],
          direct_corrections[i][3]>>]

\* variant: the scores are left in the order they were computed in
sort_by_score_unsorted(scores) == scores

\* list.sort(key=lambda x: -x[0]): descending by score, equal scores keep
\* their order
RECURSIVE sort_by_score(_)
sort_by_score(scores) ==
    IF scores = <<>>
    THEN <<>>
    ELSE LET best == CHOOSE i \in DOMAIN scores :
                        /\ \A j \in DOMAIN scores : scores[j][1] <= scores[i][1]
                        /\ \A j \in 1..(i - 1) : scores[j][1] < scores[i][1]
             rest == [k \in 1..(Len(scores) - 1) |->
                         IF k < best THEN scores[k] ELSE scores[k + 1]]
         IN  <<scores[best]>> \o sort_by_score(rest)

\* max_corrections None; `if max_corrections:` takes 0 the same way
unlimited == 0

rank_corrections(corrections, patterns, replacements, user_words, max_corrections) ==
    LET tiers == separate_by_type(corrections, patterns, replacements, user_words)
        pattern_scores ==
            sort_by_score(score_patterns(tiers.pattern_corrections, replacements))
        direct_scores ==
            sort_by_score(score_direct_corrections(tiers.direct_corrections))
        without_score(scores) ==
            [i \in 1..Len(scores) |-> <<scores[i][2], scores[i][3], scores[i][4]>>]
        ranked == tiers.user_corrections \o without_score(pattern_scores)
                      \o without_score(direct_scores)
    IN  [ranked |-> IF max_corrections # unlimited
                    THEN SubSeq(ranked, 1,
                            IF max_corrections < Len(ranked)
                            THEN max_corrections ELSE Len(ranked))
                    ELSE ranked,
         user_corrections |-> tiers.user_corrections,
         pattern_scores |-> pattern_scores,
         direct_scores |-> direct_scores]

\* most direct corrections handed to one ranking call
MaxRanked == 3

\* patterns with the corrections they replaced
RankReplacements ==
    (<<"ehn", "hen", "RIGHT">> :>
        { <<"tehn", "then", "RIGHT">>, <<"wehn", "when", "RIGHT">> })
    @@ (<<"ahn", "han", "RIGHT">> :>
        { <<"tahn", "than", "RIGHT">>, <<"sahn", "shan", "RIGHT">> })
    @@ (<<"kei", "kie", "RIGHT">> :>
        { <<"xakei", "xakie", "RIGHT">>, <<"yakei", "yakie", "RIGHT">> })

\* corrections the solver left active; the last one is also among the
\* replacements of a pattern
RankCatalogue ==
    { <<"teh", "the", "NONE">>, <<"tch", "tech", "NONE">>,
      <<"tain", "train", "NONE">>, <<"wokr", "work", "NONE">>,
      <<"wehn", "when", "RIGHT">> }

UserWordChoices == SUBSET {"tech", "hen"}

MaxCorrectionsChoices == {unlimited, 1, 2, 4}

\* the platform ranks solver_result.corrections + solver_result.patterns
RankCorrections ==
    /\ call = no_call
    /\ \E C \in { S \in SUBSET RankCatalogue : Cardinality(S) <= MaxRanked } :
       \E P \in SUBSET DOMAIN RankReplacements :
       \E corrections \in OrdersOf(C) :
       \E patterns \in OrdersOf(P) :
       \E user_words \in UserWordChoices :
       \E max_corrections \in MaxCorrectionsChoices :
          LET replacements == [p \in P |-> RankReplacements[p]]
          IN  call' = [fn |-> "rank_corrections",
                       corrections |-> corrections \o patterns,
                       patterns |-> patterns,
                       pattern_replacements |-> replacements,
                       user_words |-> user_words,
                       max_corrections |-> max_corrections,
                       result |-> rank_corrections(corrections \o patterns,
                                      patterns, replacements, user_words,
                                      max_corrections)]
    /\ UNCHANGED <<iteration_start, inputs, caches, walk, solves, solver_state>>

(***************************************************************************)
(* The override for 2-letter user words.                                   *)
(***************************************************************************)

\* variant: every user word is forced to BOTH, whatever its length
apply_user_word_boundary_override_any_length(word, boundary, user_words) ==
    IF word \in user_words THEN "BOTH" ELSE boundary

apply_user_word_boundary_override(word, boundary, user_words) ==
    IF word \in user_words /\ Len(word) = 2 THEN "BOTH" ELSE boundary

OverrideWords == {"it", "at", "a", "the", "test"}

OverrideUserWords == SUBSET {"it", "a", "test"}

ApplyUserWordBoundaryOverride ==
    /\ call = no_call
    /\ \E word \in OverrideWords :
       \E boundary \in BoundaryType :
       \E user_words \in OverrideUserWords :
          call' = [fn |-> "apply_user_word_boundary_override",
                   word |-> word,
                   boundary |-> boundary,
                   user_words |-> user_words,
                   result |-> apply_user_word_boundary_override(
                                  word, boundary, user_words)]
    /\ UNCHANGED <<iteration_start, inputs, caches, walk, solves, solver_state>>

(***************************************************************************)
(* QMK character filtering.  A string is the list of the code points of    *)
(* its characters here, so that letters outside a-z can be told apart.     *)
(***************************************************************************)

\* str.isalpha for the characters of the catalogue: the Latin letters of
\* ASCII and the accented letters of Latin-1
isalpha(c) ==
    \/ c \in 65..90
    \/ c \in 97..122
    \/ c \in (192..255) \ {215, 247}

\* str.lower, character by character
lower(s) ==
    [i \in 1..Len(s) |->
        IF s[i] \in 65..90 \/ s[i] \in (192..222) \ {215}
        THEN s[i] + 32 ELSE s[i]]

apostrophe == 39

\* QMKBackend.ALLOWED_CHARS: a to z and the apostrophe
ALLOWED_CHARS == (97..122) \cup {apostrophe}

\* all(c.isalpha() or c == "'" for c in s.lower())
valid_chars(s) ==
    \A i \in 1..Len(s) : isalpha(lower(s)[i]) \/ lower(s)[i] = apostrophe

filter_character_set(corrections) ==
    LET kept(c) == valid_chars(c[1]) /\ valid_chars(c[2])
        dropped(c) == ~kept(c)
        passed == SelectSeq(corrections, kept)
        failed == SelectSeq(corrections, dropped)
    IN  [filtered |->
            [i \in 1..Len(passed) |->
                <<lower(passed[i][1]), lower(passed[i][2]), passed[i][3]>>],
         char_filtered |->
            [i \in 1..Len(failed) |->
                <<failed[i][1], failed[i][2],
                  IF ~valid_chars(failed[i][1])
                  THEN "typo contains invalid chars"
                  ELSE "word contains invalid chars">>]]

\* most corrections handed to one filtering call
MaxFiltered == 2

\* teh -> the, Teh -> The, dont -> don't, cfae' -> cafe' with e acute,
\* e-mial -> e-mail, m3p -> mp3
CharCatalogue ==
    { << <<116, 101, 104>>, <<116, 104, 101>>, "NONE" >>,
      << <<84, 101, 104>>, <<84, 104, 101>>, "NONE" >>,
      << <<100, 111, 110, 116>>, <<100, 111, 110, 39, 116>>, "BOTH" >>,
      << <<99, 102, 97, 233>>, <<99, 97, 102, 233>>, "NONE" >>,
      << <<101, 45, 109, 105, 97, 108>>, <<101, 45, 109, 97, 105, 108>>, "NONE" >>,
      << <<109, 51, 112>>, <<109, 112, 51>>, "LEFT" >> }

FilterCharacterSet ==
    /\ call = no_call
    /\ \E C \in { S \in SUBSET CharCatalogue : Cardinality(S) <= MaxFiltered } :
       \E corrections \in OrdersOf(C) :
          call' = [fn |-> "filter_character_set",
                   corrections |-> corrections,
                   result |-> filter_character_set(corrections)]
    /\ UNCHANGED <<iteration_start, inputs, caches, walk, solves, solver_state>>

(***************************************************************************)
(* The false trigger check and the boundary order, called on their own.    *)
(***************************************************************************)

\* a typo next to its word: no relationship, prefix, suffix, true middle,
\* prefix and suffix at once
RelationCatalogue ==
    { <<"teh", "the">>, <<"abou", "about">>, <<"bout", "about">>,
      <<"bou", "about">>, <<"mm", "mmm">> }

\* words that begin with, end with or hold one of the typos, or are one
WordSetChoices == SUBSET {"tehran", "xteh", "stehn", "bout"}

WouldCauseFalseTrigger ==
    /\ call = no_call
    /\ \E tw \in RelationCatalogue :
       \E boundary \in BoundaryType :
       \E validation \in WordSetChoices :
       \E source \in { {}, {tw[2]}, {"tehran", tw[2]} } :
          call' = [fn |-> "_would_cause_false_trigger",
                   typo |-> tw[1],
                   boundary |-> boundary,
                   validation |-> validation,
                   source |-> source,
                   target_word |-> tw[2],
                   result |-> _would_cause_false_trigger(
                                  tw[1], boundary, validation, source, tw[2])]
    /\ UNCHANGED <<iteration_start, inputs, caches, walk, solves, solver_state>>

DetermineBoundaryOrder ==
    /\ call = no_call
    /\ \E tw \in RelationCatalogue :
          call' = [fn |-> "_determine_boundary_order",
                   typo |-> tw[1],
                   word |-> tw[2],
                   result |-> _determine_boundary_order(tw[1], tw[2])]
    /\ UNCHANGED <<iteration_start, inputs, caches, walk, solves, solver_state>>

(***************************************************************************)
(* The length filter of the candidate selection package.                   *)
(***************************************************************************)

\* True when the candidate may stay: a word of at most min_typo_length
\* letters needs a typo of at least min_typo_length letters
_check_length_constraints(typo, word, min_typo_len) ==
    IF Len(word) <= min_typo_len
    THEN Len(typo) >= min_typo_len
    ELSE TRUE

LengthCatalogue ==
    { <<"a", "ab">>, <<"teh", "the">>, <<"ab", "about">>,
      <<"abu", "abouts">>, <<"abotu", "about">> }

CheckLengthConstraints ==
    /\ call = no_call
    /\ \E tw \in LengthCatalogue :
       \E min_typo_len \in MinTypoLengthChoices :
          call' = [fn |-> "_check_length_constraints",
                   typo |-> tw[1],
                   word |-> tw[2],
                   min_typo_length |-> min_typo_len,
                   result |-> _check_length_constraints(tw[1], tw[2], min_typo_len)]
    /\ UNCHANGED <<iteration_start, inputs, caches, walk, solves, solver_state>>

(***************************************************************************)
(* The post-process of parallel pattern validation, on the list of         *)
(* accepted patterns in the order the workers returned them.               *)
(***************************************************************************)
\* variant: the accepted patterns are taken in the order they arrived
RECURSIVE patterns_sorted_as_arrived(_)
patterns_sorted_as_arrived(patterns) ==
    IF patterns = <<>> THEN <<>>
    ELSE <<Head(patterns)>> \o patterns_sorted_as_arrived(Tail(patterns))

\* sorted(patterns, key=lambda p: len(p[0])): shorter typo_pattern first,
\* patterns of one length in the order they arrived
RECURSIVE patterns_sorted(_)
patterns_sorted(patterns) ==
    IF patterns = <<>> THEN <<>>
    ELSE LET first == Head(patterns)
             rest == patterns_sorted(Tail(patterns))
         IN  SelectSeq(rest, LAMBDA p : Len(p[1]) < Len(first[1]))
                 \o <<first>>
                 \o SelectSeq(rest, LAMBDA p : Len(p[1]) >= Len(first[1]))

\* the loop of the post-process: a pattern is kept unless it is redundant
\* with a pattern kept before it
RECURSIVE non_redundant_in_order(_, _)
non_redundant_in_order(sorted, kept) ==
    IF sorted = <<>> THEN kept
    ELSE LET p == Head(sorted)
         IN  IF check_pattern_redundant_with_other_patterns(
                    p[1], p[2], { kept[i] : i \in DOMAIN kept })
             THEN non_redundant_in_order(Tail(sorted), kept)
             ELSE non_redundant_in_order(Tail(sorted), Append(kept, p))

MaxAccepted == 4

\* accepted patterns: a chain of suffix patterns each reproduced by the
\* shorter ones, a suffix pattern that the shortest does not reproduce, and
\* a prefix pattern with a longer one that it reproduces
AcceptedCatalogue ==
    { <<"ei", "ie", "RIGHT">>, <<"kei", "kie", "RIGHT">>,
      <<"akei", "akie", "NONE">>, <<"mei", "mine", "NONE">>,
      <<"teh", "the", "LEFT">>, <<"tehr", "ther", "LEFT">> }

RemoveRedundantPatternsPostProcess ==
    /\ call = no_call
    /\ \E accepted \in { s \in SUBSET AcceptedCatalogue :
                             Cardinality(s) <= MaxAccepted } :
       \E arrived \in OrdersOf(accepted) :
          call' = [fn |-> "_remove_redundant_patterns_post_process",
                   patterns |-> arrived,
                   result |-> non_redundant_in_order(patterns_sorted(arrived), <<>>)]
    /\ UNCHANGED <<iteration_start, inputs, caches, walk, solves, solver_state>>

\* the corrections that autocorr_generator's remove_substring_conflicts is
\* given: a typo with a longer typo that starts with it, the same typo under
\* another boundary, a typo with a longer typo that ends with it, and a typo
\* with a longer typo that holds it in the middle
MaxConflictGroup == 3

ConflictCatalogue ==
    { <<"teh", "the", "NONE">>, <<"tehir", "their", "NONE">>,
      <<"toin", "ton", "NONE">>, <<"toin", "tion", "RIGHT">>,
      <<"atoin", "ation", "RIGHT">>,
      <<"nad", "and", "NONE">>, <<"xnady", "xandy", "NONE">> }

\* the loop over substring_groups.items(): the typos are walked in the order
\* the set hands them out; a typo already marked is passed over, otherwise
\* every longer typo that starts with it is marked
RECURSIVE typos_to_remove_in_order(_, _, _)
typos_to_remove_in_order(order, all_typos, typos_to_remove) ==
    IF order = <<>> THEN typos_to_remove
    ELSE LET short_typo == Head(order)
             containing == { long_typo \in all_typos :
                                 /\ startswith(long_typo, short_typo)
                                 /\ short_typo # long_typo }
         IN  IF containing = {} \/ short_typo \in typos_to_remove
             THEN typos_to_remove_in_order(Tail(order), all_typos, typos_to_remove)
             ELSE typos_to_remove_in_order(Tail(order), all_typos,
                                           typos_to_remove \cup containing)

\* worker of one boundary group; order is the iteration order of the set of
\* all typos handed to it
_process_boundary_group(group, order) ==
    LET all_typos == { c[1] : c \in group }
        typos_to_remove ==
            typos_to_remove_in_order(
                SelectSeq(order, LAMBDA t : t \in all_typos), all_typos, {})
    IN  { c \in group : c[1] \notin typos_to_remove }

\* remove_substring_conflicts of autocorr_generator/processing.py: the
\* corrections are grouped by boundary and every group goes through the
\* worker, in a pool when jobs > 1 and there are several groups, else in a
\* loop; the results are put together
processing_remove_substring_conflicts(corrections, n_jobs, order) ==
    LET by_boundary == { b \in BoundaryType : \E c \in corrections : c[3] = b }
        results(b) == _process_boundary_group({ c \in corrections : c[3] = b }, order)
    IN  IF n_jobs > 1 /\ Cardinality(by_boundary) > 1
        THEN UNION { results(b) : b \in by_boundary }
        ELSE UNION { results(b) : b \in by_boundary }

RemoveSubstringConflicts ==
    /\ call = no_call
    /\ \E corrections \in { s \in SUBSET ConflictCatalogue :
                                Cardinality(s) <= MaxConflictGroup } :
       \E order \in OrdersOf({ c[1] : c \in corrections }) :
       \E workers \in 1..MaxJobs :
          call' = [fn |-> "remove_substring_conflicts",
                   corrections |-> corrections,
                   jobs |-> workers,
                   result |-> processing_remove_substring_conflicts(
                                  corrections, workers, order)]
    /\ UNCHANGED <<iteration_start, inputs, caches, walk, solves, solver_state>>

CallInit ==
    /\ call = no_call
    /\ no_solver
    /\ iteration_start = <<active_corrections, active_patterns, graveyard>>

CallNext ==
    \/ RankCorrections
    \/ ApplyUserWordBoundaryOverride
    \/ FilterCharacterSet
    \/ WouldCauseFalseTrigger
    \/ DetermineBoundaryOrder
    \/ CheckLengthConstraints
    \/ RemoveRedundantPatternsPostProcess
    \/ RemoveSubstringConflicts

CallSpec == CallInit /\ [][CallNext]_vars


(***************************************************************************)
(* The pattern generalization stage, generalize_typo_patterns, run on the  *)
(* corrections that collision resolution returned.                         *)
(***************************************************************************)
\* resolve_collisions on the typo map of the patterns: one word is taken as it
\* is, several words go through the ratio test; the word that is left gets
\* its boundary from boundary selection
resolve_collisions(typo_map) ==
    UNION { LET words == { tw[2] : tw \in { x \in typo_map : x[1] = typo } }
                chosen == IF Cardinality(words) = 1 THEN words
                          ELSE process_collision_case(typo, list_of_set(words)).accepted
            IN  UNION { IF _should_skip_short_typo(typo, w) THEN {}
                        ELSE SelectBoundary(typo, w).accepted : w \in chosen } :
              typo \in { tw[1] : tw \in typo_map } }

\* remove_substring_conflicts: each boundary group on its own
remove_substring_conflicts(corrections) ==
    UNION { group_survivors(corrections, b, match_direction) : b \in BoundaryType }

generalize_typo_patterns(corrections) ==
    CHOOSE result \in
        { CHOOSE inner \in
            { CHOOSE last \in
                { [corrections |-> f.final_corrections \cup f.safe_patterns,
                   patterns |-> resolved_patterns,
                   removed_count |-> Cardinality(corrections \cap g.corrections_to_remove),
                   pattern_replacements |-> g.pattern_replacements,
                   rejected_patterns |-> g.rejected_patterns \cup f.rejected_patterns] :
                    f \in { _filter_cross_boundary_conflicts(
                                resolved_patterns,
                                corrections \ g.corrections_to_remove,
                                g.pattern_replacements) } } : TRUE :
                resolved_patterns \in
                    { remove_substring_conflicts(
                          resolve_collisions({ <<q[1], q[2]>> : q \in g.patterns })) } } : TRUE :
            g \in { generalize_patterns(corrections) } } : TRUE

\* corrections as collision resolution returns them: two families of typos
\* that end alike, rewritten to words that end differently, a family with a
\* prefix pattern, and a correction whose word holds the letters that the
\* typos of the first family end with
StageCatalogue ==
    { <<"xakei", "xakie", "NONE">>, <<"yakei", "yakie", "NONE">>,
      <<"zbkei", "zbkey", "NONE">>, <<"wbkei", "wbkey", "NONE">>,
      <<"tehn", "then", "LEFT">>, <<"tehm", "them", "LEFT">>,
      <<"sieze", "seize", "NONE">> }

StageInit ==
    /\ raw_typo_map = {}
    /\ set_order \in OrdersOf({"ie", "ey"})
    /\ exclusions = {}
    /\ validation_set \in {{}, {"xkeiy"}}
    /\ active_corrections \in SUBSET StageCatalogue
    /\ source_words = { c[2] : c \in active_corrections }
    /\ platform \in {"qmk", "espanso"}
    /\ max_iterations = 10
    /\ min_typo_length \in {2, 3}
    /\ jobs \in {1, 2}
    /\ detection = "buckets"
    /\ active_patterns = {}
    /\ graveyard = [c \in {} |-> "NONE"]
    /\ pattern_replacements = [c \in {} |-> {}]
    /\ current_iteration = 1
    /\ pc = "pattern"
    /\ previous = <<0, 0, 0>>
    /\ converged = FALSE
    /\ solve_count = 1
    /\ first_result = <<{}, {}, {}>>
    /\ walk = idle_walk
    /\ formatted_cache = no_formatted
    /\ call = no_call
    /\ iteration_start = <<active_corrections, active_patterns, graveyard>>
    /\ dirty_corrections = {}
    /\ format_call = no_format_call

GeneralizeTypoPatterns ==
    /\ call = no_call
    /\ pc = "pattern"
    /\ call' = [fn |-> "generalize_typo_patterns",
                collision_result |-> active_corrections,
                result |-> generalize_typo_patterns(active_corrections)]
    /\ UNCHANGED <<iteration_start, inputs, caches, walk, solves, solver_state>>

\* the candidates of the same corrections validated on both paths
RunValidation ==
    /\ call = no_call
    /\ pc = "pattern"
    /\ \E to_validate \in { patterns_to_validate(active_corrections) } :
          call' = [fn |-> "run_validation",
                   patterns_to_validate |-> to_validate,
                   single_threaded |->
                       _run_single_threaded_validation(to_validate, active_corrections),
                   parallel |->
                       _run_parallel_validation(to_validate, active_corrections)]
    /\ UNCHANGED <<iteration_start, inputs, caches, walk, solves, solver_state>>

StageNext ==
    \/ GeneralizeTypoPatterns
    \/ RunValidation

StageSpec == StageInit /\ [][StageNext]_vars


C2_NoFormattedSubstring ==
    (pc = "done" /\ platform = "qmk") =>
        \A c \in Triples : \A d \in Triples :
            FormattedOf(c) # FormattedOf(d) =>
                ~contains(FormattedOf(d), FormattedOf(c))

\* C3: a state the solver declared converged is a fixed point: a second solve
\* of that state ends every iteration with the same active_corrections,
\* active_patterns and graveyard.
C3_ConvergedIsFixedPoint ==
    (solve_count = 2 /\ current_iteration >= 1 /\ pc \in {"check", "start", "done"})
        => <<active_corrections, active_patterns, DOMAIN graveyard>> = first_result

\* the second solve has finished on a result that took removals to reach
C3_Witness ==
    /\ solve_count = 2
    /\ pc = "done"
    /\ first_result[1] # {}
    /\ first_result[3] # {}

\* C4: the solver never starts an iteration beyond max_iterations, leaves the
\* loop only when the counts did not change or at the cap, and does leave it.
C4_StopsWithinMaxIterations ==
    /\ [](current_iteration <= max_iterations)
    /\ [][(pc = "check" /\ pc' = "done") =>
            (_get_state_counts = previous \/ current_iteration = max_iterations)]_vars
    /\ <>(pc = "done")

\* the cap ended a solve that had not converged
C4_Witness ==
    /\ pc = "done"
    /\ ~converged
    /\ current_iteration = max_iterations

C6_GraveyardMonotone ==
    [][DOMAIN graveyard \subseteq DOMAIN graveyard']_vars

\* the graveyard holds entries of two iterations
C6_Witness ==
    /\ current_iteration >= 2
    /\ \E c \in DOMAIN graveyard : graveyard[c] = "BLOCKED_BY_CONFLICT"
    /\ \E c \in DOMAIN graveyard : graveyard[c] = "PLATFORM_CONSTRAINT"

\* C7: after every pass active_corrections and active_patterns are disjoint.
C7_CorrectionsPatternsDisjoint ==
    active_corrections \cap active_patterns = {}

\* a pattern has been committed while direct corrections stay active
C7_Witness ==
    /\ active_corrections # {}
    /\ \E q \in active_patterns :
           /\ q \in DOMAIN pattern_replacements
           /\ pattern_replacements[q] # {}

\* C8: after every pass every active pattern has a non-empty replacement list,
\* none of whose entries is an active correction.
C8_ReplacedNotActive ==
    \A q \in active_patterns :
        /\ q \in DOMAIN pattern_replacements
        /\ pattern_replacements[q] # {}
        /\ pattern_replacements[q] \cap active_corrections = {}

\* C9: in the final result no two active triples share a (typo, word) pair
\* with different boundaries, and no active pattern has the (typo, word)
\* pair of an active direct correction, whatever the boundaries.
C9_OnePairOneBoundary ==
    pc = "done" =>
        /\ \A c \in Triples : \A d \in Triples :
               (c[1] = d[1] /\ c[2] = d[2]) => c[3] = d[3]
        /\ \A q \in active_patterns : \A c \in active_corrections :
               ~(q[1] = c[1] /\ q[2] = c[2])

\* the result holds a direct correction whose (typo, word) pair was refused
\* as a pattern that validation had widened to another boundary
C9_Witness ==
    /\ pc = "done"
    /\ \E c \in active_corrections : \E g \in DOMAIN graveyard :
           /\ g[1] = c[1]
           /\ g[2] = c[2]
           /\ g[3] # c[3]
           /\ g[3] # "NONE"
           /\ graveyard[g] = "PATTERN_VALIDATION_FAILED"

\* C10: the typo of an active correction with boundary NONE is not a
\* substring of any other word of validation_set or source_words.
C10_NoneBoundaryNotSubstring ==
    \A c \in active_corrections :
        c[3] = "NONE" =>
            \A w \in validation_set \cup source_words :
                w # c[1] => ~contains(w, c[1])

\* a NONE correction is active while another typo was refused NONE
C10_Witness ==
    /\ \E c \in active_corrections : c[3] = "NONE"
    /\ \E g \in DOMAIN graveyard :
           g[3] = "NONE" /\ graveyard[g] = "FALSE_TRIGGER"

C12_LessRestrictiveRetained ==
    [][pc = "platform" =>
        LET conflict(a, b) ==
                \/ _is_substring(FormattedOf(a), FormattedOf(b))
                \/ _is_substring(FormattedOf(b), FormattedOf(a))
            loses_nowhere(a) ==
                \A s \in Triples : FormattedOf(s) = FormattedOf(a) =>
                    \A c \in Triples : conflict(s, c) =>
                        BOUNDARY_PRIORITY(s[3]) < BOUNDARY_PRIORITY(c[3])
        IN  \A a, b \in Triples :
                (/\ conflict(a, b)
                 /\ BOUNDARY_PRIORITY(a[3]) < BOUNDARY_PRIORITY(b[3]))
                    => /\ b \notin Triples'
                       /\ loses_nowhere(a) => a \in Triples']_vars

(***************************************************************************)
(* Platform substring conflicts: removal of a whole formatted trigger.     *)
(***************************************************************************)
\* C13: when the platform substring conflict pass removes an entry, it
\* removes every active entry with the same formatted trigger, and of two
\* formatted triggers in a substring relation of which one lost an entry at
\* most one still has active entries after the pass.
C13_AllOfLosingTriggerRemoved ==
    [][pc = "platform" =>
        LET gone == Triples \ Triples'
            conflict(a, b) ==
                \/ _is_substring(FormattedOf(a), FormattedOf(b))
                \/ _is_substring(FormattedOf(b), FormattedOf(a))
        IN  /\ \A c \in gone : \A d \in Triples :
                   FormattedOf(d) = FormattedOf(c) => d \in gone
            /\ \A a, b \in Triples :
                   (conflict(a, b) /\ (a \in gone \/ b \in gone))
                       => ~(\E x, y \in Triples' :
                               /\ FormattedOf(x) = FormattedOf(a)
                               /\ FormattedOf(y) = FormattedOf(b))]_vars

(***************************************************************************)
(* Worker interleaving.                                                    *)
(***************************************************************************)
\* C14: when the conflicts of a bucket are detected by workers, what the
\* bucket marks for removal does not depend on the order in which the
\* workers return: it is what the bucket marks when the workers return in
\* chunk order, so the corrections removed and retained are the same for
\* every order.
C14_WorkerOrderIrrelevant ==
    [][(walk.phase = "detecting" /\ walk'.phase = "walking") =>
        LET chunks == divide_into_chunks(current_bucket, jobs)
            in_chunk_order ==
                flatten([i \in DOMAIN chunks |->
                            detect_conflicts_for_chunk(chunks[i], walk.candidates)])
        IN  walk'.to_remove =
                resolve_conflicts_sequential(in_chunk_order, walk.listing,
                                             match_direction, walk.to_remove)]_vars

\* a bucket was resolved after its workers returned out of chunk order, each
\* with a conflict, and the pass has removed corrections
C14_Witness ==
    /\ walk.phase = "done"
    /\ Len(walk.arrival_order) > 1
    /\ walk.arrival_order[1] > walk.arrival_order[2]
    /\ \A i \in DOMAIN walk.arrived : walk.arrived[i] # <<>>
    /\ Cardinality(walk.to_remove) > 1

C16_OneActivePerTypo ==
    \A a, b \in active_corrections :
        a[1] = b[1] => (a[2] = b[2] /\ a[3] = b[3])

\* a typo standing for two words has its one correction active in a second
\* iteration
C16_Witness ==
    /\ current_iteration >= 2
    /\ pc = "check"
    /\ \E c \in active_corrections : Cardinality(unique_words(c[1])) > 1

C19_CacheNeverStale ==
    /\ \A c \in (DOMAIN formatted_cache) \ dirty_corrections :
          formatted_cache[c] = FormattedOf(c)
    /\ \A c \in DOMAIN format_call.correction_to_formatted :
          format_call.correction_to_formatted[c] = FormattedOf(c)
    /\ \A c \in DOMAIN format_call.cached_results :
          format_call.cached_results[c] = FormattedOf(c)

\* on the platform that writes boundary markers, a formatting call served a
\* marked correction from the cache after the pool had formatted a large batch
C19_Witness ==
    /\ is_qmk
    /\ jobs > 1
    /\ Cardinality(DOMAIN formatted_cache) >= PARALLEL_FORMAT_THRESHOLD
    /\ \E c \in DOMAIN format_call.cached_results :
          /\ c[3] # "NONE"
          /\ c \notin dirty_corrections
          /\ c \in active_corrections

C22_RankedIsTruncatedTierOrder ==
    call.fn = "rank_corrections" =>
        LET ranked == call.result.ranked
            all == { call.corrections[i] : i \in DOMAIN call.corrections }
            pats == { call.patterns[i] : i \in DOMAIN call.patterns }
            replaced == UNION { call.pattern_replacements[p] : p \in pats }
            tier(c) == IF c[2] \in call.user_words THEN 0
                       ELSE IF c \in pats THEN 1 ELSE 2
            score(c) == IF tier(c) = 1
                        THEN total_freq(call.pattern_replacements[c])
                        ELSE cached_word_frequency(c[2])
            eligible == { c \in all : tier(c) = 2 => c \notin replaced }
            before(c, d) ==
                \/ tier(c) < tier(d)
                \/ tier(c) = tier(d) /\ tier(c) > 0 /\ score(c) > score(d)
            kept == { ranked[i] : i \in DOMAIN ranked }
            limit == call.max_corrections
        IN  /\ kept \subseteq eligible
            /\ Cardinality(kept) = Len(ranked)
            /\ \A i, j \in DOMAIN ranked : i < j => ~before(ranked[j], ranked[i])
            /\ \A c \in eligible \ kept : \A d \in kept : ~before(c, d)
            /\ Len(ranked) = IF limit # unlimited /\ limit < Cardinality(eligible)
                             THEN limit ELSE Cardinality(eligible)
            /\ limit # unlimited => Len(ranked) <= limit

\* a user word, two patterns handed over in ascending order of score and
\* two direct corrections are ranked, and the limit cuts the last one off
C22_Witness ==
    /\ call.fn = "rank_corrections"
    /\ call.max_corrections = 4
    /\ call.user_words = {"tech"}
    /\ call.patterns = << <<"ehn", "hen", "RIGHT">>, <<"ahn", "han", "RIGHT">> >>
    /\ Len(call.corrections) = 5
    /\ SubSeq(call.corrections, 1, 3) =
           << <<"wokr", "work", "NONE">>, <<"teh", "the", "NONE">>,
              <<"tch", "tech", "NONE">> >>
    /\ call.result.ranked =
           << <<"tch", "tech", "NONE">>, <<"ahn", "han", "RIGHT">>,
              <<"ehn", "hen", "RIGHT">>, <<"teh", "the", "NONE">> >>

(***************************************************************************)
(* Workers and the driver.                                                 *)
(***************************************************************************)
\* C23: a worker never mutates the driver's state.  While workers are out
\* the snapshot they were given (the listing, the formatted keys and the
\* index of shorter typos) and the active sets, the graveyard and the set
\* of corrections marked for removal stay as they are; the step in which a
\* worker returns adds one list of plain values, computed from the
\* worker's chunk and the snapshot alone, to the lists that have arrived;
\* and every change to the active sets, the graveyard and the marks is a
\* step of the driver taken while no worker is out.
C23_WorkersNeverMutate ==
    [][ /\ walk.phase = "detecting" /\ walk.workers_left # {} =>
              /\ UNCHANGED <<active_corrections, active_patterns, graveyard,
                             pattern_replacements>>
              /\ walk'.to_remove = walk.to_remove
              /\ walk'.candidates = walk.candidates
              /\ walk'.listing = walk.listing
              /\ walk'.keys = walk.keys
              /\ \E i \in walk.workers_left :
                    /\ walk'.workers_left = walk.workers_left \ {i}
                    /\ walk'.arrived =
                           Append(walk.arrived,
                                  detect_conflicts_for_chunk(
                                      divide_into_chunks(current_bucket, jobs)[i],
                                      walk.candidates))
        /\ \/ <<active_corrections, active_patterns, graveyard,
                pattern_replacements>>' #
                  <<active_corrections, active_patterns, graveyard,
                    pattern_replacements>>
           \/ walk'.to_remove # walk.to_remove
           => walk.workers_left = {}
      ]_vars

\* one worker has handed back a conflict while another is still out
C23_Witness ==
    /\ walk.phase = "detecting"
    /\ walk.workers_left # {}
    /\ \E k \in DOMAIN walk.arrived : walk.arrived[k] # <<>>
    /\ active_corrections # {}

(***************************************************************************)
(* Cancellation.                                                           *)
(***************************************************************************)
\* C24: after a cancel during an iteration the active corrections, the
\* active patterns and the graveyard are what they were when that iteration
\* began: no effect of the interrupted iteration remains.
C24_CancelRollsBack ==
    pc = "cancelled" =>
        <<active_corrections, active_patterns, graveyard>> = iteration_start

(***************************************************************************)
(* User words and platform characters.                                     *)
(***************************************************************************)
\* C25: after the user-word override a correction whose word is a 2-letter
\* word of user_words has boundary BOTH, whatever boundary was selected,
\* and a correction for any other word keeps the boundary selected.
C25_TwoLetterUserWordIsBoth ==
    call.fn = "apply_user_word_boundary_override" =>
        /\ call.word \in call.user_words /\ Len(call.word) = 2
               => call.result = "BOTH"
        /\ ~(call.word \in call.user_words /\ Len(call.word) = 2)
               => call.result = call.boundary

\* the 2-letter user word "it", selected with NONE, comes out with BOTH
C25_Witness ==
    /\ call.fn = "apply_user_word_boundary_override"
    /\ call.word = "it"
    /\ "it" \in call.user_words
    /\ call.boundary = "NONE"
    /\ call.result = "BOTH"

\* C26: under qmk every correction that passes the character filtering has
\* a typo and a word made only of the characters a to z and the apostrophe.
C26_OnlyAllowedChars ==
    call.fn = "filter_character_set" =>
        \A i \in DOMAIN call.result.filtered :
            \A k \in 1..2 :
                \A j \in DOMAIN call.result.filtered[i][k] :
                    call.result.filtered[i][k][j] \in ALLOWED_CHARS

(***************************************************************************)
(* False triggers and the order of boundaries.                             *)
(***************************************************************************)
\* C27: LEFT is rejected as a false trigger exactly when the typo is a
\* prefix of a validation or source word other than the typo itself, or a
\* prefix of the target word; RIGHT exactly when the typo is a suffix of
\* such a word; BOTH is never rejected.
C27_FalseTriggerByBoundary ==
    call.fn = "_would_cause_false_trigger" =>
        LET typo == call.typo
            n == Len(typo)
            words == { w \in call.validation \cup call.source : w # typo }
                         \cup {call.target_word}
            begins(w) == Len(w) >= n /\ SubSeq(w, 1, n) = typo
            ends(w) == Len(w) >= n /\ SubSeq(w, Len(w) - n + 1, Len(w)) = typo
        IN  /\ call.boundary = "LEFT" =>
                  (call.result <=> \E w \in words : begins(w))
            /\ call.boundary = "RIGHT" =>
                  (call.result <=> \E w \in words : ends(w))
            /\ call.boundary = "BOTH" => ~call.result

\* LEFT is rejected for a typo that begins its target word and no other word
C27_Witness ==
    /\ call.fn = "_would_cause_false_trigger"
    /\ call.typo = "abou"
    /\ call.boundary = "LEFT"
    /\ call.validation = {"xteh"}
    /\ call.source = {}
    /\ call.result

\* C28 (as stated): the order is NONE, LEFT, BOTH when the typo is a prefix
\* of its word, NONE, RIGHT, BOTH when it is a suffix, NONE, BOTH when it
\* is a true-middle substring, and NONE, LEFT, RIGHT, BOTH otherwise.
C28_OrderByRelationship ==
    call.fn = "_determine_boundary_order" =>
        LET typo == call.typo
            word == call.word
            n == Len(typo)
            is_prefix == typo # word /\ Len(word) >= n /\ SubSeq(word, 1, n) = typo
            is_suffix == /\ typo # word
                         /\ Len(word) >= n
                         /\ SubSeq(word, Len(word) - n + 1, Len(word)) = typo
            is_middle == /\ ~is_prefix
                         /\ ~is_suffix
                         /\ \E i \in 2..(Len(word) - n) :
                                SubSeq(word, i, i + n - 1) = typo
        IN  /\ is_prefix => call.result = <<"NONE", "LEFT", "BOTH">>
            /\ is_suffix => call.result = <<"NONE", "RIGHT", "BOTH">>
            /\ is_middle => call.result = <<"NONE", "BOTH">>
            /\ ~is_prefix /\ ~is_suffix /\ ~is_middle =>
                   call.result = <<"NONE", "LEFT", "RIGHT", "BOTH">>

\* C28: the order is NONE, RIGHT, BOTH when the typo is a suffix of its
\* word; NONE, LEFT, BOTH when it is a prefix and not a suffix; NONE, BOTH
\* when it is a true-middle substring; NONE, LEFT, RIGHT, BOTH otherwise.
C28_OrderByRelationshipSuffixFirst ==
    call.fn = "_determine_boundary_order" =>
        LET typo == call.typo
            word == call.word
            n == Len(typo)
            is_prefix == typo # word /\ Len(word) >= n /\ SubSeq(word, 1, n) = typo
            is_suffix == /\ typo # word
                         /\ Len(word) >= n
                         /\ SubSeq(word, Len(word) - n + 1, Len(word)) = typo
            is_middle == /\ ~is_prefix
                         /\ ~is_suffix
                         /\ \E i \in 2..(Len(word) - n) :
                                SubSeq(word, i, i + n - 1) = typo
        IN  /\ is_suffix => call.result = <<"NONE", "RIGHT", "BOTH">>
            /\ is_prefix /\ ~is_suffix => call.result = <<"NONE", "LEFT", "BOTH">>
            /\ is_middle => call.result = <<"NONE", "BOTH">>
            /\ ~is_prefix /\ ~is_suffix /\ ~is_middle =>
                   call.result = <<"NONE", "LEFT", "RIGHT", "BOTH">>

\* the order has been determined for a typo that both begins and ends its
\* word
C28_Witness ==
    /\ call.fn = "_determine_boundary_order"
    /\ call.typo = "mm"
    /\ call.word = "mmm"
    /\ call.result = <<"NONE", "RIGHT", "BOTH">>

(***************************************************************************)
(* Short typos.                                                            *)
(***************************************************************************)
\* C29: the length filter of candidate selection rejects a candidate
\* (typo, word) as too short exactly when the typo has fewer than
\* min_typo_length letters and the word more than min_word_length; a short
\* typo for a word of at most min_word_length letters is admitted.
C29_TooShortExactly ==
    call.fn = "_check_length_constraints" =>
        (~call.result <=>
            /\ Len(call.typo) < call.min_typo_length
            /\ Len(call.word) > min_word_length)

(***************************************************************************)
(* Collisions: several words for one typo.                                 *)
(***************************************************************************)
\* C30 (as stated): once candidate selection has run, for every typo that
\* stands for more than one word, with f1 >= f2 the two highest frequencies:
\* if f1 / max(f2, epsilon) > freq_ratio the typo is not graveyarded as
\* ambiguous and only a most frequent word is ever active for it; otherwise
\* no correction for the typo is active and each of its words is in the
\* graveyard with reason COLLISION_AMBIGUOUS.  With frequencies counted in
\* whole units and a vanishing epsilon, the ratio test reads f1 > 0 when
\* f2 = 0.
C30_RatioWithEpsilon ==
    current_iteration >= 1 /\ pc # "candidate" =>
        \A typo \in { t \in Typos : Cardinality(unique_words(t)) > 1 } :
            LET words == unique_words(typo)
                f(w) == cached_word_frequency(w)
                top == CHOOSE w \in words : \A v \in words : f(v) <= f(w)
                f1 == f(top)
                f2 == f(CHOOSE w \in words \ {top} :
                          \A v \in words \ {top} : f(v) <= f(w))
                accept == IF f2 = 0 THEN f1 > 0 ELSE f1 > freq_ratio * f2
                ambiguous == \E g \in DOMAIN graveyard :
                                /\ g[1] = typo
                                /\ graveyard[g] = "COLLISION_AMBIGUOUS"
                for_typo == { c \in active_corrections \cup ReplacedCorrections :
                                c[1] = typo }
            IN  IF accept
                THEN /\ ~ambiguous
                     /\ \A c \in for_typo : f(c[2]) = f1
                ELSE /\ for_typo = {}
                     /\ \A w \in words :
                           /\ <<typo, w, "NONE">> \in DOMAIN graveyard
                           /\ graveyard[<<typo, w, "NONE">>] = "COLLISION_AMBIGUOUS"

\* C30: the same, with the ratio taken as infinite when f2 = 0: the most
\* frequent word is accepted iff f2 = 0 or f1 / f2 > freq_ratio.
C30_RatioInfiniteAtZero ==
    current_iteration >= 1 /\ pc # "candidate" =>
        \A typo \in { t \in Typos : Cardinality(unique_words(t)) > 1 } :
            LET words == unique_words(typo)
                f(w) == cached_word_frequency(w)
                top == CHOOSE w \in words : \A v \in words : f(v) <= f(w)
                f1 == f(top)
                f2 == f(CHOOSE w \in words \ {top} :
                          \A v \in words \ {top} : f(v) <= f(w))
                accept == f2 = 0 \/ f1 > freq_ratio * f2
                ambiguous == \E g \in DOMAIN graveyard :
                                /\ g[1] = typo
                                /\ graveyard[g] = "COLLISION_AMBIGUOUS"
                for_typo == { c \in active_corrections \cup ReplacedCorrections :
                                c[1] = typo }
            IN  IF accept
                THEN /\ ~ambiguous
                     /\ \A c \in for_typo : f(c[2]) = f1
                ELSE /\ for_typo = {}
                     /\ \A w \in words :
                           /\ <<typo, w, "NONE">> \in DOMAIN graveyard
                           /\ graveyard[<<typo, w, "NONE">>] = "COLLISION_AMBIGUOUS"

\* candidate selection has made "the" active for teh, left thn without a
\* correction and ambiguous, and accepted one of the two words of
\* frequency 0 for xkei
C30_Witness ==
    /\ raw_typo_map = CollisionFamily
    /\ current_iteration = 1
    /\ pc = pass_after("candidate")
    /\ \E c \in active_corrections : c[1] = "teh" /\ c[2] = "the"
    /\ \A c \in active_corrections : c[1] # "thn"
    /\ <<"thn", "than", "NONE">> \in DOMAIN graveyard
    /\ graveyard[<<"thn", "than", "NONE">>] = "COLLISION_AMBIGUOUS"
    /\ \E c \in active_corrections : c[1] = "xkei" /\ c[2] = "xkee"

C32_OccurrencesReproduced ==
    /\ [](\A p \in active_patterns :
             /\ p \in DOMAIN pattern_replacements
             /\ \A c \in pattern_replacements[p] :
                    pattern_reproduces(p[1], p[2], c[1], c[2]))
    /\ [][pc = "pattern" /\ pc' = pass_after("pattern") =>
            \A key \in DOMAIN patterns_to_validate(active_corrections) :
                (\E c \in patterns_to_validate(active_corrections)[key] :
                     ~pattern_reproduces(key[1], key[2], c[1], c[2]))
                  => \A b \in BoundaryType :
                         <<key[1], key[2], b>> \notin active_patterns']_vars

\* the candidate (tain, rain) had one occurrence it reproduces and one it
\* does not, and was rejected: both occurrences are still active
C32_Witness ==
    /\ pc = "conflict"
    /\ raw_typo_map = ReproductionFamily
    /\ \E b \in BoundaryType :
           /\ <<"tain", "rain", b>> \in DOMAIN graveyard
           /\ graveyard[<<"tain", "rain", b>>] = "PATTERN_VALIDATION_FAILED"
    /\ \E c \in active_corrections : c[1] = "zztain"
    /\ \E c \in active_corrections : c[1] = "xxtain"
    /\ active_patterns = {}

(***************************************************************************)
(* Boundary escalation of candidate patterns.                              *)
(***************************************************************************)
\* C33: when the pattern generalization pass runs, each candidate pattern is
\* tried with the boundaries of its pattern type in order (prefix: NONE,
\* LEFT; suffix: NONE, RIGHT; otherwise NONE).  If some boundary of that
\* order passes every validation check, the pattern comes out of validation
\* with the first such boundary (accepted, or set aside afterwards as
\* redundant) and with no other, and it is not rejected under a boundary
\* that failed; if no boundary of the order passes, the candidate is
\* rejected and accepted with no boundary.
C33_FirstPassingBoundary ==
    [][pc = "pattern" /\ pc' = pass_after("pattern") =>
         \E g \in { generalize_patterns(active_corrections) } :
         \A key \in DOMAIN patterns_to_validate(active_corrections) :
             LET occurrences == patterns_to_validate(active_corrections)[key]
                 order == _get_pattern_boundary_order(
                              key[3], _determine_pattern_type(key[1], occurrences))
                 passing == { i \in 1..Len(order) :
                                /\ _check_pattern_length(key[1])
                                /\ pattern_passes(key, order[i], occurrences,
                                                  active_corrections) }
                 first == CHOOSE i \in passing : \A j \in passing : i <= j
                 out(b) == <<key[1], key[2], b>>
             IN  IF passing # {}
                 THEN /\ out(order[first]) \in g.patterns \cup g.rejected_patterns
                      /\ \A b \in BoundaryType \ {order[first]} :
                             /\ out(b) \notin g.patterns
                             /\ out(b) \notin g.rejected_patterns
                 ELSE /\ key \in g.rejected_patterns
                      /\ \A b \in BoundaryType : out(b) \notin g.patterns]_vars

(***************************************************************************)
(* Commit order of patterns after parallel validation.                     *)
(***************************************************************************)
\* C34: whatever order the validation workers return the accepted patterns
\* in, the post-process commits patterns in order of increasing typo_pattern
\* length, no committed pattern is redundant against a committed pattern
\* with a shorter typo_pattern, a pattern is left out only when a committed
\* shorter one makes it redundant, and the set committed is the same for
\* every order of arrival.
C34_CommitShortestFirst ==
    call.fn = "_remove_redundant_patterns_post_process" =>
        LET committed == call.result
            arrived == { call.patterns[i] : i \in DOMAIN call.patterns }
            kept == { committed[i] : i \in DOMAIN committed }
            redundant(p, q) ==
                /\ Len(q[1]) < Len(p[1])
                /\ check_pattern_redundant_with_other_patterns(p[1], p[2], {q})
        IN  /\ \A i, j \in DOMAIN committed :
                   i < j => Len(committed[i][1]) <= Len(committed[j][1])
            /\ \A i, j \in DOMAIN committed : i # j => committed[i] # committed[j]
            /\ kept \subseteq arrived
            /\ \A p \in kept : \A q \in kept : ~redundant(p, q)
            /\ \A p \in arrived \ kept : \E q \in kept : redundant(p, q)
            /\ kept = non_redundant_patterns(arrived)

\* a longer pattern arrived before the shorter one that makes it redundant,
\* and before a shorter one that does not
C34_Witness ==
    /\ call.fn = "_remove_redundant_patterns_post_process"
    /\ call.patterns = << <<"kei", "kie", "RIGHT">>, <<"mei", "mine", "NONE">>,
                          <<"ei", "ie", "RIGHT">> >>
    /\ call.result = << <<"ei", "ie", "RIGHT">>, <<"mei", "mine", "NONE">> >>

C36_NoCorrectionLost ==
    call.fn = "generalize_typo_patterns" =>
        \A c \in call.collision_result \ call.result.corrections :
            \E p \in call.result.patterns \cap call.result.corrections :
                /\ p \in DOMAIN call.result.pattern_replacements
                /\ c \in call.result.pattern_replacements[p]

(***************************************************************************)
(* The two paths of pattern validation.                                    *)
(***************************************************************************)
\* C37: for the same candidate patterns and inputs, single-threaded
\* validation and validation by workers accept the same patterns with the
\* same boundaries, reject the same patterns and mark the same corrections
\* for removal.
C37_SameOnBothPaths ==
    call.fn = "run_validation" =>
        /\ call.single_threaded.patterns = call.parallel.patterns
        /\ call.single_threaded.rejected_patterns = call.parallel.rejected_patterns
        /\ call.single_threaded.corrections_to_remove =
               call.parallel.corrections_to_remove

(***************************************************************************)
(* The two paths of bucket conflict checking.                              *)
(***************************************************************************)
\* C38: when the conflicts of a bucket are detected in chunks by workers and
\* resolved by resolve_conflicts_sequential, the bucket marks for removal
\* exactly what the sequential path of check_bucket_conflicts marks for the
\* same bucket, the same shorter typos and the same marks made so far.
C38_ParallelSameAsSequential ==
    [][(walk.phase = "detecting" /\ walk'.phase = "walking") =>
        walk'.to_remove =
            replay_conflicts(
                detect_conflicts_for_chunk(current_bucket, walk.candidates),
                walk.listing, match_direction, walk.to_remove)]_vars

(***************************************************************************)
(* Removals of the platform pass and their blockers.                       *)
(***************************************************************************)
\* C39: when the platform substring conflict pass ends, every correction or
\* pattern it removed has a formatted typo that lies inside, or holds, the
\* different formatted typo of a correction or pattern that is still active.
C39_RemovalsJustifiedAtEnd ==
    [][(pc = "platform" /\ pc' = pass_after("platform")) =>
        \A c \in Triples \ Triples' :
            \E d \in Triples' :
                \/ is_substring(FormattedOf(d), FormattedOf(c))
                \/ is_substring(FormattedOf(c), FormattedOf(d))]_vars

(***************************************************************************)
(* Substring conflicts left inside a boundary group.                       *)
(***************************************************************************)
\* C40: in what remove_substring_conflicts returns, no two corrections of the
\* same boundary group have different typos of which one lies inside the
\* other, be it at the start, in the middle or at the end.
C40_NoSubstringWithinGroup ==
    call.fn = "remove_substring_conflicts" =>
        \A c, d \in call.result :
            (c[3] = d[3] /\ c[1] # d[1]) => ~contains(d[1], c[1])

====
